---------------------------- MODULE Spec2Model ----------------------------
(***************************************************************************)
(* A model of qtype's typing engine (src/typing_engine.h, the revision     *)
(* that starts at line 846): TextChunker, ImperfectionGenerator,           *)
(* TypingDynamics and the TypingEngine that orchestrates them.             *)
(*                                                                         *)
(* Conventions.                                                            *)
(*  - A QChar is a one-character string; the three non-ASCII code points   *)
(*    the model uses are written "U+2014" (em dash), "U+00E9" (e acute)    *)
(*    and "U+00A0" (no-break space).                                       *)
(*  - A QString is the record [pat, len]: the text of length len whose     *)
(*    i-th character (0-based) is pat[(i % Len(pat)) + 1].  A short text   *)
(*    has len = Len(pat); a long text repeats its pattern.  The code only  *)
(*    reads a text through operator[] and length(), which are TextAt and   *)
(*    TextLength below.                                                    *)
(*  - An int is a 32-bit two's-complement integer (IntMin..IntMax).        *)
(*  - A double is kept in fixed point: delays and hold times in whole      *)
(*    milliseconds, factors in percent, every random draw a choice from a  *)
(*    small set of representative values.                                  *)
(*  - A unique_ptr is a record whose field ptr is "null" or "obj".         *)
(*  - Where the draws of a call change no member (calculateDelay's delay,  *)
(*    generateHoldTime's hold), the values the call can return are kept    *)
(*    together as one set: ret.values, holdTimeMs.                         *)
(***************************************************************************)
EXTENDS Integers, Sequences, FiniteSets, TLC

VARIABLES
    cfg,                  \* TypingEngine: profile_, delays_, imperfections_, layout_
    chunker,              \* TypingEngine::chunker_ / a TextChunker
    dynamics,             \* TypingEngine::dynamics_ / a TypingDynamics
    imperfectionGen,      \* TypingEngine::imperfectionGen_ / an ImperfectionGenerator
    wordsSinceBreak,      \* TypingEngine::wordsSinceBreak_
    mouseMovementEnabled, \* TypingEngine::mouseMovementEnabled_
    charsSinceMouseMove,  \* TypingEngine::charsSinceMouseMove_
    nextMouseMoveAt,      \* TypingEngine::nextMouseMoveAt_
    skippedCharCount,     \* TypingEngine::skippedCharCount_
    skippedCharsPreview,  \* TypingEngine::skippedCharsPreview_
    sink,                 \* the calls the IKeyboardSimulator has received since observation started
    mouse,                \* the number of IMouseSimulator::moveRelative calls since then
    ret,                  \* the last call made and what it returned
    window,               \* the AutoTyperWindow: its members, timers and slot position
    client,               \* websocket/qtype_client.cpp: the locals of main() and its typing threads
    obs                   \* observer: where observation started, what was returned since

vars == <<cfg, chunker, dynamics, imperfectionGen, wordsSinceBreak,
          mouseMovementEnabled, charsSinceMouseMove, nextMouseMoveAt,
          skippedCharCount, skippedCharsPreview, sink, mouse, ret, window,
          client, obs>>

---------------------------------------------------------------------------
(* Bounds of the model.                                                    *)

\* Longest text enumerated character by character.
MaxLen == 3

\* Number of characters the model lets a standalone generator process
\* one call at a time before it stops exploring.
MaxCalls == 5

---------------------------------------------------------------------------
(* Program constants.                                                      *)

IntMax == 2147483647
IntMin == -IntMax - 1

MIN_DELAY_MS == 15
MAX_DELAY_MS == 8000
MIN_HOLD_TIME_MS == 40
MAX_HOLD_TIME_MS == 180
CHARS_BEFORE_FATIGUE_UPDATE == 50
CHARS_FOR_MAX_FATIGUE == 1000
MAX_CHUNK_LENGTH == 12
MIN_WORDS_BEFORE_PAUSE == 8
MAX_WORDS_BEFORE_PAUSE == 15
MIN_MOUSE_MOVE_INTERVAL_CHARS == 20
MAX_MOUSE_MOVE_INTERVAL_CHARS == 60
MIN_MOUSE_PAUSE_MS == 100
MAX_MOUSE_PAUSE_MS == 300

\* Constants of type double, in the model's fixed point: TWO_PI in
\* hundredths of a radian, MAX_FATIGUE_FACTOR in ten-thousandths,
\* THINKING_PAUSE_PROBABILITY in percent.
TWO_PI == 628
MAX_FATIGUE_FACTOR == 2500
THINKING_PAUSE_PROBABILITY == 30

---------------------------------------------------------------------------
(* QChar.                                                                  *)

Lower == <<"a","b","c","d","e","f","g","h","i","j","k","l","m",
           "n","o","p","q","r","s","t","u","v","w","x","y","z">>
Upper == <<"A","B","C","D","E","F","G","H","I","J","K","L","M",
           "N","O","P","Q","R","S","T","U","V","W","X","Y","Z">>

Range(s) == {s[i] : i \in DOMAIN s}

LowerLetters == Range(Lower)
UpperLetters == Range(Upper)
Digits == {"0","1","2","3","4","5","6","7","8","9"}
\* ASCII characters that are neither letters, digits, white space nor in punct.
OtherAscii == {"@", "$", "%", "^", "&", "="}
AsciiSpaces == {" ", "\t", "\n", "\r"}
NonAscii == {"U+2014", "U+00E9", "U+00A0"}

\* static const QString punct in TextChunker::nextChunk.
punct == {"*", "-", "#", "`", "_", "[", "]", "(", ")", "{", "}", "<", ">",
          "!", "~", "+", "|", "\"", "'", ".", ",", ":", ";", "/", "?", "\\"}

Char == LowerLetters \cup UpperLetters \cup Digits \cup OtherAscii
          \cup AsciiSpaces \cup NonAscii \cup punct

\* QChar::unicode() for the non-ASCII characters; every other character of
\* Char is ASCII, below 128 (its exact code is never read).
Unicode(c) ==
    CASE c = "U+2014" -> 8212
      [] c = "U+00E9" -> 233
      [] c = "U+00A0" -> 160
      [] OTHER -> 0

IsUpper(c) == c \in UpperLetters
IsLetter(c) == c \in LowerLetters \cup UpperLetters \cup {"U+00E9"}
IsDigit(c) == c \in Digits
IsSpace(c) == c \in AsciiSpaces \cup {"U+00A0"}

IndexIn(s, c) == CHOOSE i \in DOMAIN s : s[i] = c

ToLower(c) == IF c \in UpperLetters THEN Lower[IndexIn(Upper, c)] ELSE c
ToUpper(c) ==
    IF c \in LowerLetters THEN Upper[IndexIn(Lower, c)]
    ELSE IF c = "U+00E9" THEN "U+00C9" ELSE c

---------------------------------------------------------------------------
(* QString.                                                                *)

Text(pat) == [pat |-> pat, len |-> Len(pat)]
Repeat(pat, n) == [pat |-> pat, len |-> n]

TextLength(t) == t.len
TextAt(t, i) == t.pat[(i % Len(t.pat)) + 1]

RECURSIVE TextSlice(_, _, _)
\* The characters of t at the indices from..to-1, as a sequence.
TextSlice(t, from, to) ==
    IF from >= to THEN <<>>
    ELSE <<TextAt(t, from)>> \o TextSlice(t, from + 1, to)

RECURSIVE Concat(_)
Concat(ss) == IF ss = <<>> THEN <<>> ELSE Head(ss) \o Concat(Tail(ss))

---------------------------------------------------------------------------
(* 32-bit int arithmetic.                                                  *)

\* i * 100 as the machine computes it for a 32-bit int i >= 0: the low 32
\* bits of the product, read as a signed number.  The product is built from
\* 16-bit halves so that no intermediate value leaves 32 bits.
Mul100Int32(i) ==
    LET hi    == i \div 65536
        lo    == i % 65536
        p0    == lo * 100
        low16 == p0 % 65536
        high  == (hi * 100 + (p0 \div 65536)) % 65536
    IN  IF high >= 32768 THEN (high - 65536) * 65536 + low16
        ELSE high * 65536 + low16

\* a / b of C++ for b > 0: the quotient truncated towards zero.
DivInt32(a, b) ==
    IF a >= 0 \/ a % b = 0 THEN a \div b ELSE (a \div b) + 1

\* Mutant: the upper bound is not applied.
qBound_NoMax(min, val, max) == IF val < min THEN min ELSE val

\* Mutant: the lower bound is not applied.
qBound_NoMin(min, val, max) == IF val > max THEN max ELSE val

\* qBound(min, val, max) == qMax(min, qMin(max, val)).
qBound(min, val, max) ==
    LET m == IF max < val THEN max ELSE val
    IN  IF min < m THEN m ELSE min

---------------------------------------------------------------------------
(* std::unique_ptr.                                                        *)

NullPtr == [ptr |-> "null"]

---------------------------------------------------------------------------
(* TextChunker.                                                            *)

\* TextChunker::TextChunker(text).
NewTextChunker(text) == [ptr |-> "obj", text |-> text, currentIndex |-> 0]

\* TextChunker::hasMore().
HasMore(c) == c.currentIndex < TextLength(c.text)

RECURSIVE WordRun_DropsBoundary(_, _, _, _)
\* Mutant: the loop consumes the boundary character it stops at.
WordRun_DropsBoundary(text, idx, limit, chunk) ==
    IF idx < TextLength(text) /\ limit # 0
    THEN LET ch == TextAt(text, idx)
         IN  IF ch = "\n" \/ ch = "\t" \/ ch \in punct \/ IsSpace(ch)
             THEN [idx |-> idx + 1, chunk |-> chunk]
             ELSE WordRun_DropsBoundary(text, idx + 1, limit - 1, Append(chunk, ch))
    ELSE [idx |-> idx, chunk |-> chunk]

RECURSIVE WordRun_NoCap(_, _, _, _)
\* Mutant: the loop never looks at `limit`.
WordRun_NoCap(text, idx, limit, chunk) ==
    IF idx < TextLength(text)
    THEN LET ch == TextAt(text, idx)
         IN  IF ch = "\n" \/ ch = "\t" \/ ch \in punct \/ IsSpace(ch)
             THEN [idx |-> idx, chunk |-> chunk]
             ELSE WordRun_NoCap(text, idx + 1, limit - 1, Append(chunk, ch))
    ELSE [idx |-> idx, chunk |-> chunk]

RECURSIVE WordRun_PastEnd(_, _, _, _)
\* Mutant: the loop tests currentIndex_ <= text_.length().
WordRun_PastEnd(text, idx, limit, chunk) ==
    IF idx <= TextLength(text) /\ limit # 0
    THEN LET ch == TextAt(text, idx)
         IN  IF ch = "\n" \/ ch = "\t" \/ ch \in punct \/ IsSpace(ch)
             THEN [idx |-> idx, chunk |-> chunk]
             ELSE WordRun_PastEnd(text, idx + 1, limit - 1, Append(chunk, ch))
    ELSE [idx |-> idx, chunk |-> chunk]

RECURSIVE WordRun(_, _, _, _)
\* The while loop of TextChunker::nextChunk: `limit` is the value of the
\* local before `limit--` is evaluated.
WordRun(text, idx, limit, chunk) ==
    IF idx < TextLength(text) /\ limit # 0
    THEN LET ch == TextAt(text, idx)
         IN  IF ch = "\n" \/ ch = "\t" THEN [idx |-> idx, chunk |-> chunk]
             ELSE IF ch \in punct THEN [idx |-> idx, chunk |-> chunk]
             ELSE IF IsSpace(ch) THEN [idx |-> idx, chunk |-> chunk]
             ELSE WordRun(text, idx + 1, limit - 1, Append(chunk, ch))
    ELSE [idx |-> idx, chunk |-> chunk]

\* TextChunker::nextChunk(): the chunker afterwards and the chunk returned.
NextChunk(c) ==
    IF ~HasMore(c) THEN [chunker |-> c, chunk |-> <<>>]
    ELSE
      LET ch  == TextAt(c.text, c.currentIndex)
          one == [chunker |-> [c EXCEPT !.currentIndex = c.currentIndex + 1],
                  chunk |-> <<ch>>]
      IN  IF ch = "\n" \/ ch = "\t" THEN one
          ELSE IF ch \in punct THEN one
          ELSE IF IsSpace(ch) THEN one
          ELSE LET r == WordRun(c.text, c.currentIndex, MAX_CHUNK_LENGTH, <<>>)
               IN  [chunker |-> [c EXCEPT !.currentIndex = r.idx],
                    chunk |-> r.chunk]

\* TextChunker::progressPercent(): currentIndex_ * 100 is an int product
\* (signed overflow wraps on the supported builds), the quotient truncates.
ProgressPercent(c) ==
    IF TextLength(c.text) = 0 THEN 100
    ELSE DivInt32(Mul100Int32(c.currentIndex), TextLength(c.text))

---------------------------------------------------------------------------
(* RandomGenerator: a draw is a choice among the values it can return.     *)

\* The widest range(min, max) whose values are all enumerated; of a wider
\* range the model draws the smallest and the largest value.
MaxRangeDraws == 4

\* RandomGenerator::range(min, max).
RangeDraws(min, max) ==
    LET lo == IF min > max THEN max ELSE min
        hi == IF min > max THEN min ELSE max
    IN  IF hi - lo < MaxRangeDraws THEN lo..hi
        ELSE {lo, hi}

\* The result of ++ on an int.  At INT_MAX the increment is a signed
\* overflow, undefined behaviour: the value stored is the wrapped one
\* (INT_MIN) or is left at INT_MAX.
Increment(x) == IF x = IntMax THEN {IntMin, IntMax} ELSE {x + 1}

---------------------------------------------------------------------------
(* KeyboardLayout.                                                         *)

KeyboardLayoutTypes == {"US_QWERTY", "UK_QWERTY", "GERMAN_QWERTZ", "FRENCH_AZERTY"}

\* KeyboardLayout::initializeLayout(): rows_[0..2] are rows[1..3].
InitializeLayout(type) ==
    CASE type = "US_QWERTY" ->
           << <<"q","w","e","r","t","y","u","i","o","p">>,
              <<"a","s","d","f","g","h","j","k","l">>,
              <<"z","x","c","v","b","n","m">> >>
      [] type = "UK_QWERTY" ->
           << <<"q","w","e","r","t","y","u","i","o","p">>,
              <<"a","s","d","f","g","h","j","k","l">>,
              <<"z","x","c","v","b","n","m">> >>
      [] type = "GERMAN_QWERTZ" ->
           << <<"q","w","e","r","t","z","u","i","o","p">>,
              <<"a","s","d","f","g","h","j","k","l">>,
              <<"y","x","c","v","b","n","m">> >>
      [] type = "FRENCH_AZERTY" ->
           << <<"a","z","e","r","t","y","u","i","o","p">>,
              <<"q","s","d","f","g","h","j","k","l","m">>,
              <<"w","x","c","v","b","n">> >>

\* KeyboardLayout::KeyboardLayout(type).
NewKeyboardLayout(type) == [type |-> type, rows |-> InitializeLayout(type)]

\* Mutant: indexOf counts positions from 1.
IndexOf_OneBased(row, c) ==
    IF \E i \in DOMAIN row : row[i] = c
    THEN CHOOSE i \in DOMAIN row : row[i] = c /\ \A j \in 1..(i - 1) : row[j] # c
    ELSE -1

\* QString::indexOf(c) with 0-based result, -1 when absent.
IndexOf(row, c) ==
    IF \E i \in DOMAIN row : row[i] = c
    THEN (CHOOSE i \in DOMAIN row : row[i] = c /\ \A j \in 1..(i - 1) : row[j] # c) - 1
    ELSE -1

\* The lambda addIfValid of getNeighborKey: the candidate at (r, col), if any.
AddIfValid(layout, r, col) ==
    IF r < 0 \/ r >= 3 THEN {}
    ELSE IF col < 0 \/ col >= Len(layout.rows[r + 1]) THEN {}
    ELSE {layout.rows[r + 1][col + 1]}

\* KeyboardLayout::getNeighborKey(c): the characters it can return (the
\* candidate is chosen by RandomGenerator::range over the whole list).
GetNeighborKey(layout, c) ==
    LET upper == IsUpper(c)
        lower == ToLower(c)
        found == {r \in 0..2 : IndexOf(layout.rows[r + 1], lower) # -1}
    IN  IF found = {} THEN {c}
        ELSE
          LET rowIndex == CHOOSE r \in found : \A q \in found : r <= q
              colIndex == IndexOf(layout.rows[rowIndex + 1], lower)
              candidates ==
                  AddIfValid(layout, rowIndex, colIndex - 1)
                    \cup AddIfValid(layout, rowIndex, colIndex + 1)
                    \cup AddIfValid(layout, rowIndex - 1, colIndex)
                    \cup AddIfValid(layout, rowIndex + 1, colIndex)
                    \cup AddIfValid(layout, rowIndex - 1, colIndex - 1)
                    \cup AddIfValid(layout, rowIndex - 1, colIndex + 1)
                    \cup AddIfValid(layout, rowIndex + 1, colIndex - 1)
                    \cup AddIfValid(layout, rowIndex + 1, colIndex + 1)
          IN  IF candidates = {} THEN {c}
              ELSE {IF upper THEN ToUpper(out) ELSE out : out \in candidates}

---------------------------------------------------------------------------
(* ImperfectionGenerator.                                                  *)

\* Mutant: the next typo is scheduled one character late.
ScheduleNextTypo_Late(settings) ==
    IF settings.enableTypos
    THEN {v + 1 : v \in RangeDraws(settings.typoMin, settings.typoMax)}
    ELSE {IntMax}

\* ImperfectionGenerator::scheduleNextTypo(): the values nextTypoAt_ can get.
ScheduleNextTypo(settings) ==
    IF settings.enableTypos THEN RangeDraws(settings.typoMin, settings.typoMax)
    ELSE {IntMax}

\* ImperfectionGenerator::scheduleNextDouble(): the values nextDoubleAt_ can get.
ScheduleNextDouble(settings) ==
    IF settings.enableDoubleKeys
    THEN RangeDraws(settings.doubleMin, settings.doubleMax)
    ELSE {IntMax}

\* ImperfectionGenerator::reset(): the generators it can leave.
ResetImperfection(g) ==
    {[g EXCEPT !.charsTypedTotal = 0,
               !.charsSinceLastTypo = 0,
               !.charsSinceLastDouble = 0,
               !.nextTypoAt = t,
               !.nextDoubleAt = d] :
        t \in ScheduleNextTypo(g.settings), d \in ScheduleNextDouble(g.settings)}

\* ImperfectionGenerator::ImperfectionGenerator(settings, layout).
NewImperfectionGenerator(settings, layout) ==
    ResetImperfection([ptr |-> "obj", settings |-> settings, layout |-> layout,
                       charsTypedTotal |-> 0,
                       charsSinceLastTypo |-> 0,
                       charsSinceLastDouble |-> 0,
                       nextTypoAt |-> IntMax,
                       nextDoubleAt |-> IntMax])

\* Mutant: the typo block does not ask whether the character is a letter.
TypoStep_AnyChar(g, original) ==
    IF g.charsSinceLastTypo >= g.nextTypoAt
    THEN {[gen |-> [g EXCEPT !.charsSinceLastTypo = 0, !.nextTypoAt = t],
           character |-> k, shouldCorrect |-> sc, typo |-> TRUE] :
             k \in GetNeighborKey(g.layout, original),
             t \in ScheduleNextTypo(g.settings),
             sc \in IF g.settings.enableAutoCorrection
                    THEN {d < g.settings.correctionProbability : d \in RangeDraws(0, 99)}
                    ELSE {FALSE}}
    ELSE {[gen |-> g, character |-> original, shouldCorrect |-> FALSE, typo |-> FALSE]}

\* The typo block of processCharacter (lines 1576-1585) on the generator g
\* whose counters are already incremented: the generators and partial
\* results it can leave.
TypoStep(g, original) ==
    IF g.charsSinceLastTypo >= g.nextTypoAt /\ IsLetter(original)
    THEN {[gen |-> [g EXCEPT !.charsSinceLastTypo = 0, !.nextTypoAt = t],
           character |-> k, shouldCorrect |-> sc, typo |-> TRUE] :
             k \in GetNeighborKey(g.layout, original),
             t \in ScheduleNextTypo(g.settings),
             sc \in IF g.settings.enableAutoCorrection
                    THEN {d < g.settings.correctionProbability : d \in RangeDraws(0, 99)}
                    ELSE {FALSE}}
    ELSE {[gen |-> g, character |-> original, shouldCorrect |-> FALSE, typo |-> FALSE]}

\* Mutant: the double-key block does not ask whether the character is a space.
DoubleStep_AnyChar(g, original) ==
    IF g.charsSinceLastDouble >= g.nextDoubleAt
    THEN {[gen |-> [g EXCEPT !.charsSinceLastDouble = 0, !.nextDoubleAt = d],
           shouldDouble |-> TRUE] : d \in ScheduleNextDouble(g.settings)}
    ELSE {[gen |-> g, shouldDouble |-> FALSE]}

\* The double-key block of processCharacter (lines 1587-1591).
DoubleStep(g, original) ==
    IF g.charsSinceLastDouble >= g.nextDoubleAt /\ ~IsSpace(original)
    THEN {[gen |-> [g EXCEPT !.charsSinceLastDouble = 0, !.nextDoubleAt = d],
           shouldDouble |-> TRUE] : d \in ScheduleNextDouble(g.settings)}
    ELSE {[gen |-> g, shouldDouble |-> FALSE]}

\* ImperfectionGenerator::processCharacter(original): the pairs of the
\* generator afterwards and the ImperfectionResult returned.  The field
\* typo of the result is the observer's: whether the typo block ran.
ProcessCharacter(g, original) ==
    UNION {
      UNION {
        {[gen |-> d.gen,
          result |-> [character |-> t.character,
                      shouldDouble |-> d.shouldDouble,
                      shouldCorrect |-> t.shouldCorrect,
                      typo |-> t.typo]] : d \in DoubleStep(t.gen, original)} :
        t \in TypoStep([g EXCEPT !.charsTypedTotal = total,
                                 !.charsSinceLastTypo = sinceTypo,
                                 !.charsSinceLastDouble = sinceDouble], original)} :
      total \in Increment(g.charsTypedTotal),
      sinceTypo \in Increment(g.charsSinceLastTypo),
      sinceDouble \in Increment(g.charsSinceLastDouble)}

---------------------------------------------------------------------------
(* Draws of the continuous distributions.                                  *)

\* RandomGenerator::uniform(), in percent: the two ends of [0, 1).
UniformDraws == {0, 99}

\* Whether uniform() < p can come out true, and whether it can come out
\* false (p in percent).
UniformBelow(p) == {u < p : u \in UniformDraws}

\* RandomGenerator::gamma(shape, scale), in hundredths (shape in tenths,
\* scale in hundredths): a draw next to zero, the mean and eight times the
\* mean.
GammaDraws(shape, scale) == {((shape * scale) \div 10) * f : f \in {0, 1, 8}}

\* RandomGenerator::normal(0.0, stddev), in percent like stddev: seven
\* standard deviations below the mean, the mean, two above.
NormalDraws(stddev) == IF stddev = 0 THEN {0} ELSE {-7 * stddev, 0, 2 * stddev}

\* value * factor for a factor in percent.
Scale(value, factor) == (value * factor) \div 100

---------------------------------------------------------------------------
(* struct TimingProfile and struct DelayRange.  In a profile the           *)
(* probabilities, baseSpeedFactor, noiseLevel and gammaScale are in        *)
(* percent, idlePauseProb in thousandths and gammaShape in tenths.         *)

\* TimingProfile::humanAdvanced().
humanAdvanced ==
    [baseSpeedFactor |-> 100, microStutterProb |-> 10, idlePauseProb |-> 9,
     burstProb |-> 14, burstMin |-> 2, burstMax |-> 6,
     gammaShape |-> 20, gammaScale |-> 100, noiseLevel |-> 15]

\* TimingProfile::professional().
professional ==
    [baseSpeedFactor |-> 75, microStutterProb |-> 4, idlePauseProb |-> 3,
     burstProb |-> 25, burstMin |-> 4, burstMax |-> 10,
     gammaShape |-> 16, gammaScale |-> 85, noiseLevel |-> 8]

\* TimingProfile::fastHuman().
fastHuman ==
    [baseSpeedFactor |-> 70, microStutterProb |-> 6, idlePauseProb |-> 4,
     burstProb |-> 20, burstMin |-> 3, burstMax |-> 8,
     gammaShape |-> 18, gammaScale |-> 90, noiseLevel |-> 12]

\* TimingProfile::slowTired().
slowTired ==
    [baseSpeedFactor |-> 150, microStutterProb |-> 15, idlePauseProb |-> 25,
     burstProb |-> 8, burstMin |-> 2, burstMax |-> 4,
     gammaShape |-> 25, gammaScale |-> 130, noiseLevel |-> 22]

\* struct DelayRange with its default member initialisers.
DefaultDelays == [minMs |-> 80, maxMs |-> 180]

---------------------------------------------------------------------------
(* TypingDynamics.  rhythmPhase is in hundredths of a radian and           *)
(* fatigueFactor in ten-thousandths.                                       *)

\* QChar(): the null character previousChar_ starts as.
NullChar == "U+0000"

\* Mutant: reset leaves the fatigue factor as it was.
ResetDynamics_KeepsFatigue(d) ==
    {[d EXCEPT !.previousChar = NullChar,
               !.rhythmPhase = Scale(u, TWO_PI),
               !.burstRemaining = 0,
               !.totalCharsTyped = 0] : u \in UniformDraws}

\* TypingDynamics::reset(): the objects it can leave.
ResetDynamics(d) ==
    {[d EXCEPT !.previousChar = NullChar,
               !.rhythmPhase = Scale(u, TWO_PI),
               !.fatigueFactor = 10000,
               !.burstRemaining = 0,
               !.totalCharsTyped = 0] : u \in UniformDraws}

\* TypingDynamics::TypingDynamics(profile, delays).
NewTypingDynamics(profile, delays) ==
    ResetDynamics([ptr |-> "obj", profile |-> profile, delays |-> delays,
                   previousChar |-> NullChar, rhythmPhase |-> 0,
                   fatigueFactor |-> 10000, burstRemaining |-> 0,
                   totalCharsTyped |-> 0])

\* 1.0 + MAX_FATIGUE_FACTOR * min(1.0, total / CHARS_FOR_MAX_FATIGUE).  For
\* a negative total the minimum is the negative quotient; a result below
\* what ten-thousandths in 32 bits can hold is kept as IntMin.
FatigueAt(total) ==
    LET capped == IF total > CHARS_FOR_MAX_FATIGUE THEN CHARS_FOR_MAX_FATIGUE
                  ELSE total
        half == total \div 2
    IN  IF total >= 0
        THEN 10000 + (MAX_FATIGUE_FACTOR * capped) \div CHARS_FOR_MAX_FATIGUE
        ELSE IF half < (IntMin \div 5) + 2000 THEN IntMin
        ELSE 10000 + 5 * half

\* TypingDynamics::updateState(currentChar): the objects it can leave (one,
\* unless totalCharsTyped_++ overflows).
UpdateState(d, currentChar) ==
    {[d EXCEPT !.previousChar = currentChar,
               !.totalCharsTyped = total,
               !.fatigueFactor =
                   IF total % CHARS_BEFORE_FATIGUE_UPDATE = 0
                   THEN FatigueAt(total) ELSE @] :
        total \in Increment(d.totalCharsTyped)}

\* TypingDynamics::shouldBurst(): the pairs of the object afterwards and
\* the value returned.
ShouldBurst(d) ==
    IF d.burstRemaining > 0
    THEN {[dynamics |-> [d EXCEPT !.burstRemaining = @ - 1], value |-> TRUE]}
    ELSE UNION {
           IF below
           THEN {[dynamics |-> [d EXCEPT !.burstRemaining = n], value |-> TRUE] :
                    n \in RangeDraws(d.profile.burstMin, d.profile.burstMax)}
           ELSE {[dynamics |-> d, value |-> FALSE]} :
           below \in UniformBelow(d.profile.burstProb)}

\* Mutant: the pause does not depend on the number of words.
ShouldThinkingPause_AnyCount(w) ==
    {below : below \in UniformBelow(THINKING_PAUSE_PROBABILITY)}

\* TypingDynamics::shouldThinkingPause(wordsSinceBreak): the values it can
\* return.
ShouldThinkingPause(w) ==
    {w > n /\ below :
        n \in RangeDraws(MIN_WORDS_BEFORE_PAUSE, MAX_WORDS_BEFORE_PAUSE),
        below \in UniformBelow(THINKING_PAUSE_PROBABILITY)}

\* sin(phase) in percent, by the triangle wave through the sine's zeros
\* and extremes.
Sin(phase) ==
    LET x == phase % TWO_PI
        quarter == TWO_PI \div 4
    IN  IF x <= quarter THEN (100 * x) \div quarter
        ELSE IF x <= 3 * quarter THEN (100 * (2 * quarter - x)) \div quarter
        ELSE (100 * (x - 4 * quarter)) \div quarter

\* Mutant: the phase is not advanced.
RhythmicVariation_NoAdvance(d) ==
    [dynamics |-> d, value |-> 85 + Scale(Sin(d.rhythmPhase) \div 2 + 50, 30)]

\* TypingDynamics::rhythmicVariation(): the object afterwards and the
\* factor returned, in percent.
RhythmicVariation(d) ==
    LET phase == d.rhythmPhase + 3
        rhythm == Sin(phase) \div 2 + 50
    IN  [dynamics |-> [d EXCEPT !.rhythmPhase = phase],
         value |-> 85 + Scale(rhythm, 30)]

fast == {<<"t", "h">>, <<"h", "e">>, <<"i", "n">>, <<"e", "r">>, <<"a", "n">>,
         <<"r", "e">>, <<"o", "n">>, <<"a", "t">>, <<"e", "n">>, <<"n", "d">>}

leftHand == {"q", "w", "e", "r", "t", "a", "s", "d", "f", "g", "z", "x", "c", "v", "b"}

rightHand == {"y", "u", "i", "o", "p", "h", "j", "k", "l", "n", "m"}

\* Mutant: the hand sets are looked at before the awkward pairs.
digraphFactor_HandsFirst(prev, curr) ==
    IF <<ToLower(prev), ToLower(curr)>> \in fast THEN 75
    ELSE IF \/ ToLower(prev) \in leftHand /\ ToLower(curr) \in leftHand
            \/ ToLower(prev) \in rightHand /\ ToLower(curr) \in rightHand
         THEN 108
    ELSE IF \/ prev = "q" /\ curr = "z"
            \/ prev = "z" /\ curr = "q"
            \/ prev = "p" /\ curr = "q" THEN 140
    ELSE 100

\* TypingDynamics::digraphFactor(prev, curr), in percent.
digraphFactor(prev, curr) ==
    IF <<ToLower(prev), ToLower(curr)>> \in fast THEN 75
    ELSE IF \/ prev = "q" /\ curr = "z"
            \/ prev = "z" /\ curr = "q"
            \/ prev = "p" /\ curr = "q" THEN 140
    ELSE IF \/ ToLower(prev) \in leftHand /\ ToLower(curr) \in leftHand
            \/ ToLower(prev) \in rightHand /\ ToLower(curr) \in rightHand
         THEN 108
    ELSE 100

\* TypingDynamics::calculateDelay(ch, isSentenceEnd, isBurst,
\* isThinkingPause): the object afterwards and the values the call can
\* return.  The draws change no member, so the results of one call are
\* kept together.  The delay is in whole milliseconds throughout, so the
\* conversion int(delay) is the identity here.
CalculateDelay(d, ch, isSentenceEnd, isBurst, isThinkingPause) ==
    LET range == d.delays.maxMs - d.delays.minMs
        rhythm == RhythmicVariation(d)
        Normalized(gammaValue) ==
            IF gammaValue \div 6 > 100 THEN 100 ELSE gammaValue \div 6
        base == {d.delays.minMs + Scale(range, Normalized(g)) :
                    g \in GammaDraws(d.profile.gammaShape, d.profile.gammaScale)}
        Digit(x) == IF IsDigit(ch) THEN Scale(x, 105) ELSE x
        Space(x) == IF IsSpace(ch) THEN Scale(x, 112) ELSE x
        Newline(x) == IF ch = "\n" THEN Scale(x, 150) ELSE x
        Stop(x) == IF ch \in {".", "!", "?"} THEN Scale(x, 140) ELSE x
        Digraph(x) ==
            IF d.previousChar # NullChar
            THEN Scale(x, digraphFactor(d.previousChar, ch)) ELSE x
        shaped == {Digraph(Stop(Newline(Space(Digit(Scale(x, rhythm.value)))))) :
                      x \in base}
        afterSentence ==
            IF isSentenceEnd
            THEN {x + g \div 100 : x \in shaped, g \in GammaDraws(20, 15000)}
            ELSE shaped
        afterThinking ==
            IF isThinkingPause
            THEN {x + g \div 100 : x \in afterSentence, g \in GammaDraws(30, 80000)}
            ELSE afterSentence
        afterStutter ==
            UNION {IF below
                   THEN {Scale(x, 130 + Scale(u, 40)) :
                            x \in afterThinking, u \in UniformDraws}
                   ELSE afterThinking :
                   below \in UniformBelow(d.profile.microStutterProb)}
        afterBurst == IF isBurst THEN {Scale(x, 65) : x \in afterStutter}
                      ELSE afterStutter
        tired == {(x * d.fatigueFactor) \div 10000 : x \in afterBurst}
        noisy == {Scale(x, 100 + noise) :
                     x \in tired, noise \in NormalDraws(d.profile.noiseLevel)}
    IN  [dynamics |-> rhythm.dynamics,
         values |-> {qBound(MIN_DELAY_MS, x, MAX_DELAY_MS) : x \in noisy}]

\* TypingDynamics::generateHoldTime(ch): the values it can return (it
\* changes no member).  The hold is in hundredths of a millisecond until
\* int(hold) truncates it.
GenerateHoldTime(ch) ==
    {qBound(MIN_HOLD_TIME_MS,
            Scale(IF IsUpper(ch) THEN Scale(g, 120) ELSE g, 90 + Scale(u, 20)) \div 100,
            MAX_HOLD_TIME_MS) :
        g \in GammaDraws(25, 2000), u \in UniformDraws}

---------------------------------------------------------------------------
(* TypingEngine.  The loop of typeNextChunk works on the record of the     *)
(* members it changes: imperfectionGen, dynamics, wordsSinceBreak,         *)
(* charsSinceMouseMove, skippedCharCount, skippedCharsPreview and the      *)
(* calls the simulator has received (sink).                                *)

\* simulator_->typeCharacter(c, holdTimeMs) as the simulator records it:
\* holdTimeMs is the set of values the argument can have.
TypeCharacter(c) ==
    [call |-> "typeCharacter", c |-> c, holdTimeMs |-> GenerateHoldTime(c)]

\* simulator_->pressBackspace() as the simulator records it.
PressBackspace == [call |-> "pressBackspace"]

\* TypingEngine::isTypeable(c).
IsTypeable(c) == Unicode(c) < 128

\* TypingEngine::recordSkippedChar(c).
RecordSkippedChar(e, c) ==
    [e EXCEPT !.skippedCharCount = @ + 1,
              !.skippedCharsPreview =
                  IF Len(@) < 20 /\ c \notin Range(@)
                  THEN (IF @ # <<>> THEN @ \o <<",", " ">> ELSE @) \o <<c>>
                  ELSE @]

\* Mutant: the loop body never sends the correction.
TypeChar_NoCorrection(e, originalChar) ==
    LET counted == [e EXCEPT !.charsSinceMouseMove = @ + 1]
    IN  IF ~IsTypeable(originalChar) THEN {RecordSkippedChar(counted, originalChar)}
        ELSE {LET result == r.result
                  first == <<TypeCharacter(result.character)>>
                  second == IF result.shouldDouble
                            THEN <<TypeCharacter(result.character)>> ELSE <<>>
              IN  [counted EXCEPT
                     !.imperfectionGen = r.gen,
                     !.sink = @ \o first \o second,
                     !.log = Append(@, [original |-> originalChar, result |-> result]),
                     !.wordsSinceBreak = IF IsSpace(originalChar) THEN @ + 1 ELSE @,
                     !.dynamics = u] :
              r \in ProcessCharacter(e.imperfectionGen, originalChar),
              u \in UpdateState(e.dynamics, originalChar)}

\* Mutant: the loop body sends the correction before the character.
TypeChar_CorrectionFirst(e, originalChar) ==
    LET counted == [e EXCEPT !.charsSinceMouseMove = @ + 1]
    IN  IF ~IsTypeable(originalChar) THEN {RecordSkippedChar(counted, originalChar)}
        ELSE {LET result == r.result
                  first == <<TypeCharacter(result.character)>>
                  second == IF result.shouldDouble
                            THEN <<TypeCharacter(result.character)>> ELSE <<>>
                  correction == IF result.shouldCorrect
                                THEN <<PressBackspace, TypeCharacter(originalChar)>>
                                ELSE <<>>
              IN  [counted EXCEPT
                     !.imperfectionGen = r.gen,
                     !.sink = @ \o correction \o first \o second,
                     !.log = Append(@, [original |-> originalChar, result |-> result]),
                     !.wordsSinceBreak = IF IsSpace(originalChar) THEN @ + 1 ELSE @,
                     !.dynamics = u] :
              r \in ProcessCharacter(e.imperfectionGen, originalChar),
              u \in UpdateState(e.dynamics, originalChar)}

\* The body of the loop of typeNextChunk for one character: the records it
\* can leave.  The field log is the observer's: the characters handed to
\* processCharacter since observation started, each with its result.
TypeChar(e, originalChar) ==
    LET counted == [e EXCEPT !.charsSinceMouseMove = @ + 1]
    IN  IF ~IsTypeable(originalChar) THEN {RecordSkippedChar(counted, originalChar)}
        ELSE {LET result == r.result
                  first == <<TypeCharacter(result.character)>>
                  second == IF result.shouldDouble
                            THEN <<TypeCharacter(result.character)>> ELSE <<>>
                  correction == IF result.shouldCorrect
                                THEN <<PressBackspace, TypeCharacter(originalChar)>>
                                ELSE <<>>
              IN  [counted EXCEPT
                     !.imperfectionGen = r.gen,
                     !.sink = @ \o first \o second \o correction,
                     !.log = Append(@, [original |-> originalChar, result |-> result]),
                     !.wordsSinceBreak = IF IsSpace(originalChar) THEN @ + 1 ELSE @,
                     !.dynamics = u] :
              r \in ProcessCharacter(e.imperfectionGen, originalChar),
              u \in UpdateState(e.dynamics, originalChar)}

RECURSIVE TypeChunk(_, _, _)
\* The loop of typeNextChunk over the characters of chunk from the i-th
\* on, started in any of the records es.
TypeChunk(es, chunk, i) ==
    IF i > Len(chunk) THEN es
    ELSE TypeChunk(UNION {TypeChar(e, chunk[i]) : e \in es}, chunk, i + 1)

---------------------------------------------------------------------------
(* The texts the model types.                                              *)

SeqsUpTo(S, n) == UNION {[1..k -> S] : k \in 0..n}

\* One character of each class nextChunk tells apart, plus an upper-case
\* letter, a digit and a non-ASCII character.
TextAlphabet == {"a", "T", " ", "\n", ".", "7", "U+2014"}

ShortTexts == {Text(p) : p \in SeqsUpTo(TextAlphabet, MaxLen)}

\* Word runs that reach the 12-character cap: 13 and 25 letters, 12 and 13
\* letters before a full stop, and 9 repetitions of "=b ".
LongWordTexts ==
    {Repeat(<<"a">>, MAX_CHUNK_LENGTH + 1),
     Repeat(<<"a">>, 2 * MAX_CHUNK_LENGTH + 1),
     Text([i \in 1..(MAX_CHUNK_LENGTH + 1) |->
              IF i <= MAX_CHUNK_LENGTH THEN "a" ELSE "."]),
     Text([i \in 1..(MAX_CHUNK_LENGTH + 2) |->
              IF i <= MAX_CHUNK_LENGTH + 1 THEN "a" ELSE "."]),
     Repeat(<<"=", "b", " ">>, 27)}

\* A text of over twenty-one million letters and the index the chunker has
\* after 1,789,568 calls of nextChunk on it: every call on a run of letters
\* advances the index by MAX_CHUNK_LENGTH, so the multiples of 12 below the
\* length are the states the chunker passes through.
HugeTextLength == 21474900
HugeText == Repeat(<<"a">>, HugeTextLength)
HugeTextIndex == MAX_CHUNK_LENGTH * (((IntMax \div 100) \div MAX_CHUNK_LENGTH) - 1)

---------------------------------------------------------------------------
(* A TextChunker on its own (as tests/tests.cpp TextChunkerTest drives it).*)

NoRet == [op |-> "none"]

\* The TypingEngine members a standalone component never touches.
IdleEngine ==
    /\ window = NullPtr
    /\ client = NullPtr
    /\ cfg = NullPtr
    /\ dynamics = NullPtr
    /\ wordsSinceBreak = 0
    /\ mouseMovementEnabled = FALSE
    /\ charsSinceMouseMove = 0
    /\ nextMouseMoveAt = 0
    /\ skippedCharCount = 0
    /\ skippedCharsPreview = <<>>
    /\ sink = <<>>
    /\ mouse = 0

engineVars == <<cfg, dynamics, wordsSinceBreak,
                mouseMovementEnabled, charsSinceMouseMove, nextMouseMoveAt,
                skippedCharCount, skippedCharsPreview, sink, mouse>>

InitChunker ==
    /\ IdleEngine
    /\ imperfectionGen = NullPtr
    /\ \/ \E t \in ShortTexts \cup LongWordTexts :
             /\ chunker = NewTextChunker(t)
             /\ obs = [start |-> 0, out |-> <<>>]
       \/ /\ chunker = [NewTextChunker(HugeText) EXCEPT !.currentIndex = HugeTextIndex]
          /\ obs = [start |-> HugeTextIndex, out |-> <<>>]
    /\ ret = NoRet

\* chunker.nextChunk(), whether or not text is left.
CallNextChunk ==
    LET r == NextChunk(chunker)
    IN  /\ chunker' = r.chunker
        /\ ret' = [op |-> "nextChunk", chunk |-> r.chunk,
                   hadMore |-> HasMore(chunker), from |-> chunker.currentIndex]
        /\ obs' = [obs EXCEPT !.out = @ \o r.chunk]
        /\ UNCHANGED <<window, client, engineVars, imperfectionGen>>

NextChunker == CallNextChunk

SpecChunker == InitChunker /\ [][NextChunker]_vars

---------------------------------------------------------------------------
(* An ImperfectionGenerator on its own (as tests/tests.cpp                 *)
(* ImperfectionGeneratorTest drives it).                                   *)

\* struct ImperfectionSettings with its default member initialisers.
DefaultImperfections ==
    [enableTypos |-> TRUE, typoMin |-> 300, typoMax |-> 500,
     enableDoubleKeys |-> TRUE, doubleMin |-> 250, doubleMax |-> 400,
     enableAutoCorrection |-> TRUE, correctionProbability |-> 15]

\* The settings the model runs with: both features off (the defaults
\* otherwise), and small trigger distances with correction always, never
\* (by probability and by switch) and sometimes.
ImperfectionSettingsSet ==
    {[DefaultImperfections EXCEPT !.enableTypos = FALSE, !.enableDoubleKeys = FALSE],
     [DefaultImperfections EXCEPT !.typoMin = 2, !.typoMax = 3,
                                  !.doubleMin = 2, !.doubleMax = 3,
                                  !.correctionProbability = 100],
     [DefaultImperfections EXCEPT !.typoMin = 1, !.typoMax = 1,
                                  !.enableDoubleKeys = FALSE],
     [DefaultImperfections EXCEPT !.typoMin = 2, !.typoMax = 2,
                                  !.doubleMin = 3, !.doubleMax = 2,
                                  !.enableAutoCorrection = FALSE],
     [DefaultImperfections EXCEPT !.enableTypos = FALSE,
                                  !.doubleMin = 1, !.doubleMax = 2,
                                  !.correctionProbability = 0]}

\* The layouts a standalone generator is built on.
GeneratorLayouts == {"US_QWERTY", "FRENCH_AZERTY"}

\* The characters handed to processCharacter: letters in and out of the
\* layout tables, a digit, punctuation, white space.
ProcessChars == {"a", "T", "U+00E9", "7", ".", " "}

\* The generator g after n further calls processCharacter(' '): a space is
\* neither a letter nor a non-space, so neither block of processCharacter
\* runs and each call only increments the three counters.  n is small
\* enough that no counter overflows.
AfterSpaces(g, n) ==
    [g EXCEPT !.charsTypedTotal = @ + n,
              !.charsSinceLastTypo = @ + n,
              !.charsSinceLastDouble = @ + n]

\* The numbers of spaces processed before observation starts: none, and two
\* less than INT_MAX.
StartCalls == {0, IntMax - 2}

InitImperfection ==
    /\ IdleEngine
    /\ chunker = NullPtr
    /\ \E settings \in ImperfectionSettingsSet, type \in GeneratorLayouts,
          n \in StartCalls :
          \E g \in NewImperfectionGenerator(settings, NewKeyboardLayout(type)) :
             /\ imperfectionGen = AfterSpaces(g, n)
             /\ obs = [start |-> n, calls |-> 0, letters |-> (n = 0)]
    /\ ret = NoRet

\* gen.processCharacter(c).
CallProcessCharacter ==
    /\ obs.calls < MaxCalls
    /\ \E c \in ProcessChars : \E r \in ProcessCharacter(imperfectionGen, c) :
          /\ imperfectionGen' = r.gen
          /\ ret' = [op |-> "processCharacter", original |-> c, result |-> r.result]
          /\ obs' = [obs EXCEPT !.calls = @ + 1, !.letters = @ /\ IsLetter(c)]
    /\ UNCHANGED <<window, client, engineVars, chunker>>

\* gen.reset().
CallResetImperfection ==
    /\ ret.op = "processCharacter"
    /\ \E g \in ResetImperfection(imperfectionGen) : imperfectionGen' = g
    /\ ret' = [op |-> "reset"]
    /\ obs' = [obs EXCEPT !.letters = TRUE]
    /\ UNCHANGED <<window, client, engineVars, chunker>>

NextImperfection == CallProcessCharacter \/ CallResetImperfection

SpecImperfection == InitImperfection /\ [][NextImperfection]_vars

---------------------------------------------------------------------------
(* A KeyboardLayout on its own (as tests/tests.cpp KeyboardLayoutTest      *)
(* drives it).  The object is constant after construction: cfg holds the   *)
(* constructor argument, from which rows_ follow.                          *)

InitLayout ==
    /\ window = NullPtr
    /\ client = NullPtr
    /\ \E type \in KeyboardLayoutTypes : cfg = [layout |-> type]
    /\ dynamics = NullPtr
    /\ imperfectionGen = NullPtr
    /\ chunker = NullPtr
    /\ wordsSinceBreak = 0
    /\ mouseMovementEnabled = FALSE
    /\ charsSinceMouseMove = 0
    /\ nextMouseMoveAt = 0
    /\ skippedCharCount = 0
    /\ skippedCharsPreview = <<>>
    /\ sink = <<>>
    /\ mouse = 0
    /\ ret = NoRet
    /\ obs = [start |-> 0]

\* layout.getNeighborKey(c).
CallGetNeighborKey ==
    /\ \E c \in Char : \E out \in GetNeighborKey(NewKeyboardLayout(cfg.layout), c) :
          ret' = [op |-> "getNeighborKey", c |-> c, out |-> out]
    /\ UNCHANGED <<window, client, engineVars, chunker, imperfectionGen, obs>>

NextLayout == CallGetNeighborKey

SpecLayout == InitLayout /\ [][NextLayout]_vars

---------------------------------------------------------------------------
(* A TypingDynamics on its own (as tests/tests.cpp TypingDynamicsTest      *)
(* drives it): updateState and reset.                                      *)

MaxUpdates == 52

\* The numbers of updateState calls made before observation starts: none,
\* ten short of CHARS_FOR_MAX_FATIGUE, and three short of INT_MAX.
StartTotals == {0, CHARS_FOR_MAX_FATIGUE - 10, IntMax - 3}

\* The object d after n calls of updateState('a').
AfterUpdates(d, n) ==
    [d EXCEPT !.previousChar = IF n = 0 THEN @ ELSE "a",
              !.totalCharsTyped = n,
              !.fatigueFactor =
                  IF n < CHARS_BEFORE_FATIGUE_UPDATE THEN @
                  ELSE FatigueAt(n - (n % CHARS_BEFORE_FATIGUE_UPDATE))]

InitDynamics ==
    /\ window = NullPtr
    /\ client = NullPtr
    /\ cfg = NullPtr
    /\ chunker = NullPtr
    /\ imperfectionGen = NullPtr
    /\ \E d \in NewTypingDynamics(humanAdvanced, DefaultDelays), n \in StartTotals :
          /\ dynamics = AfterUpdates(d, n)
          /\ obs = [start |-> n, calls |-> 0]
    /\ wordsSinceBreak = 0
    /\ mouseMovementEnabled = FALSE
    /\ charsSinceMouseMove = 0
    /\ nextMouseMoveAt = 0
    /\ skippedCharCount = 0
    /\ skippedCharsPreview = <<>>
    /\ sink = <<>>
    /\ mouse = 0
    /\ ret = NoRet

\* dynamics.updateState(c).
CallUpdateState ==
    /\ obs.calls < MaxUpdates
    /\ \E c \in {"a", " "} : \E d \in UpdateState(dynamics, c) :
          /\ dynamics' = d
          /\ ret' = [op |-> "updateState", c |-> c]
    /\ obs' = [obs EXCEPT !.calls = @ + 1]
    /\ UNCHANGED <<window, client, cfg, chunker, imperfectionGen, wordsSinceBreak,
                   mouseMovementEnabled, charsSinceMouseMove, nextMouseMoveAt,
                   skippedCharCount, skippedCharsPreview, sink, mouse>>

\* dynamics.reset().
CallResetDynamics ==
    /\ ret.op = "updateState"
    /\ dynamics' \in ResetDynamics(dynamics)
    /\ ret' = [op |-> "reset"]
    /\ UNCHANGED <<window, client, cfg, chunker, imperfectionGen, wordsSinceBreak,
                   mouseMovementEnabled, charsSinceMouseMove, nextMouseMoveAt,
                   skippedCharCount, skippedCharsPreview, sink, mouse, obs>>

NextDynamics == CallUpdateState \/ CallResetDynamics

SpecDynamics == InitDynamics /\ [][NextDynamics]_vars

---------------------------------------------------------------------------
(* shouldBurst called on a TypingDynamics on its own.  obs.run counts the  *)
(* calls that reported active since the last successful burstProb draw,    *)
(* that one included; obs.drawn is the length drawn then.                  *)

\* The profiles the bursts are watched with.
BurstProfiles == {humanAdvanced, fastHuman, slowTired, professional}

InitBurst ==
    /\ window = NullPtr
    /\ client = NullPtr
    /\ cfg = NullPtr
    /\ chunker = NullPtr
    /\ imperfectionGen = NullPtr
    /\ \E profile \in BurstProfiles :
          dynamics \in NewTypingDynamics(profile, DefaultDelays)
    /\ obs = [start |-> 0, run |-> 0, drawn |-> 0]
    /\ wordsSinceBreak = 0
    /\ mouseMovementEnabled = FALSE
    /\ charsSinceMouseMove = 0
    /\ nextMouseMoveAt = 0
    /\ skippedCharCount = 0
    /\ skippedCharsPreview = <<>>
    /\ sink = <<>>
    /\ mouse = 0
    /\ ret = NoRet

\* dynamics.shouldBurst().  The field draw of ret tells whether the call
\* made the burstProb draw.
CallShouldBurst ==
    /\ \E r \in ShouldBurst(dynamics) :
          LET draw == ~(dynamics.burstRemaining > 0)
          IN  /\ dynamics' = r.dynamics
              /\ ret' = [op |-> "shouldBurst", value |-> r.value, draw |-> draw]
              /\ obs' = IF draw /\ r.value
                        THEN [obs EXCEPT !.run = 1,
                                         !.drawn = r.dynamics.burstRemaining]
                        ELSE IF r.value THEN [obs EXCEPT !.run = @ + 1]
                        ELSE [obs EXCEPT !.run = 0, !.drawn = 0]
    /\ UNCHANGED <<window, client, cfg, chunker, imperfectionGen, wordsSinceBreak,
                   mouseMovementEnabled, charsSinceMouseMove, nextMouseMoveAt,
                   skippedCharCount, skippedCharsPreview, sink, mouse>>

\* dynamics.reset() between two calls of shouldBurst.
CallResetBurst ==
    /\ ret.op = "shouldBurst"
    /\ dynamics' \in ResetDynamics(dynamics)
    /\ ret' = [op |-> "reset"]
    /\ obs' = [obs EXCEPT !.run = 0, !.drawn = 0]
    /\ UNCHANGED <<window, client, cfg, chunker, imperfectionGen, wordsSinceBreak,
                   mouseMovementEnabled, charsSinceMouseMove, nextMouseMoveAt,
                   skippedCharCount, skippedCharsPreview, sink, mouse>>

NextBurst == CallShouldBurst \/ CallResetBurst

SpecBurst == InitBurst /\ [][NextBurst]_vars

---------------------------------------------------------------------------
(* digraphFactor called on a new TypingDynamics (as tests/tests.cpp        *)
(* TypingDynamicsTest.DigraphFactorCommonPairs does).                      *)

\* The characters digraphFactor is asked about: every lower-case letter,
\* some upper-case ones, a space, a digit, a full stop and the null
\* character.
DigraphChars ==
    LowerLetters \cup {"T", "H", "Q", "Z", "P", "W", " ", "7", ".", NullChar}

InitDigraph == InitDynamics /\ obs.start = 0

\* dynamics.digraphFactor(prev, curr).
CallDigraphFactor ==
    /\ \E prev \in DigraphChars, curr \in DigraphChars :
          ret' = [op |-> "digraphFactor", prev |-> prev, curr |-> curr,
                  value |-> digraphFactor(prev, curr)]
    /\ UNCHANGED <<window, client, cfg, chunker, dynamics, imperfectionGen, wordsSinceBreak,
                   mouseMovementEnabled, charsSinceMouseMove, nextMouseMoveAt,
                   skippedCharCount, skippedCharsPreview, sink, mouse, obs>>

NextDigraph == CallDigraphFactor

SpecDigraph == InitDigraph /\ [][NextDigraph]_vars

---------------------------------------------------------------------------
(* The TypingEngine (as tests/tests.cpp TypingEngineTest and main.cpp      *)
(* drive it): constructed, then any of setText, setMouseMovementEnabled,   *)
(* typeNextChunk and reset in any order.                                   *)

\* A profile at the ends of its probabilities: it never starts a burst,
\* always stutters and has no noise.
EdgeProfile ==
    [humanAdvanced EXCEPT !.burstProb = 0, !.microStutterProb = 100,
                          !.noiseLevel = 0]

\* The arguments of the constructor the model runs with; mouseSimulator
\* tells whether the IMouseSimulator* is non-null.  The first has both
\* imperfections off, the second makes typos that are always corrected and
\* doubles every second key, the third makes a typo of every letter and
\* corrects some, with minMs > maxMs and no mouse.
EngineConfigs ==
    {[ptr |-> "obj", profile |-> humanAdvanced, delays |-> DefaultDelays,
      imperfections |-> [DefaultImperfections EXCEPT !.enableTypos = FALSE,
                                                     !.enableDoubleKeys = FALSE],
      layout |-> "US_QWERTY", mouseSimulator |-> TRUE],
     [ptr |-> "obj", profile |-> EdgeProfile,
      delays |-> [minMs |-> -50, maxMs |-> 9000],
      imperfections |-> [DefaultImperfections EXCEPT !.typoMin = 2, !.typoMax = 3,
                                                     !.doubleMin = 2, !.doubleMax = 2,
                                                     !.correctionProbability = 100],
      layout |-> "US_QWERTY", mouseSimulator |-> TRUE],
     [ptr |-> "obj", profile |-> EdgeProfile,
      delays |-> [minMs |-> 200, maxMs |-> 100],
      imperfections |-> [DefaultImperfections EXCEPT !.typoMin = 1, !.typoMax = 1,
                                                     !.enableDoubleKeys = FALSE],
      layout |-> "FRENCH_AZERTY", mouseSimulator |-> FALSE]}

\* White space only, long enough for a thinking pause and a character
\* after it.
PauseText == Repeat(<<" ">>, MIN_WORDS_BEFORE_PAUSE + 2)

\* A number of MIN_MOUSE_MOVE_INTERVAL_CHARS digits, typed as two chunks,
\* and a space: the mouse movement falls due before the space.
MouseText ==
    Text([i \in 1..(MIN_MOUSE_MOVE_INTERVAL_CHARS + 1) |->
             IF i <= MIN_MOUSE_MOVE_INTERVAL_CHARS THEN "7" ELSE " "])

\* The texts handed to setText: the empty text, a sentence of two words, a
\* word around a non-ASCII character followed by a newline, PauseText and
\* MouseText.
EngineTexts ==
    {Text(<<>>),
     Text(<<"P", " ", "q", ".">>),
     Text(<<"p", "U+2014", "q", "\n">>),
     PauseText,
     MouseText}

\* TypingEngine::scheduleNextMouseMove(): the values nextMouseMoveAt_ can get.
ScheduleNextMouseMove ==
    RangeDraws(MIN_MOUSE_MOVE_INTERVAL_CHARS, MAX_MOUSE_MOVE_INTERVAL_CHARS)

\* The engine as its constructor leaves it.
InitConstructed ==
    /\ window = NullPtr
    /\ client = NullPtr
    /\ cfg \in EngineConfigs
    /\ chunker = NullPtr
    /\ dynamics = NullPtr
    /\ imperfectionGen = NullPtr
    /\ wordsSinceBreak = 0
    /\ mouseMovementEnabled = FALSE
    /\ charsSinceMouseMove = 0
    /\ nextMouseMoveAt = 0
    /\ skippedCharCount = 0
    /\ skippedCharsPreview = <<>>
    /\ sink = <<>>
    /\ mouse = 0
    /\ ret = NoRet
    /\ obs = [start |-> 0, log |-> <<>>]

\* A text of INT_MAX letters and the index of its last chunk.
FullText == Repeat(<<"p">>, IntMax)
FullTextIndex == MAX_CHUNK_LENGTH * (IntMax \div MAX_CHUNK_LENGTH)

\* An engine with typos and double keys off that has typed FullText up to
\* its last chunk: after setText(FullText), every typeNextChunk types
\* MAX_CHUNK_LENGTH letters, counts them in each counter and calls
\* calculateDelay once; no threshold (INT_MAX) is reached on the way.  The
\* state is the one in which no call started a burst and the mouse
\* movement was never enabled; observation of the simulator starts here.
InitLastChunk ==
    /\ window = NullPtr
    /\ client = NullPtr
    /\ cfg \in EngineConfigs
    /\ ~cfg.imperfections.enableTypos /\ ~cfg.imperfections.enableDoubleKeys
    /\ chunker = [NewTextChunker(FullText) EXCEPT !.currentIndex = FullTextIndex]
    /\ \E d \in NewTypingDynamics(cfg.profile, cfg.delays) :
          dynamics = [d EXCEPT !.previousChar = "p",
                               !.rhythmPhase = @ + 3 * (FullTextIndex \div MAX_CHUNK_LENGTH),
                               !.fatigueFactor = FatigueAt(FullTextIndex),
                               !.totalCharsTyped = FullTextIndex]
    /\ \E g \in NewImperfectionGenerator(cfg.imperfections,
                                         NewKeyboardLayout(cfg.layout)) :
          imperfectionGen = [g EXCEPT !.charsTypedTotal = FullTextIndex,
                                      !.charsSinceLastTypo = FullTextIndex,
                                      !.charsSinceLastDouble = FullTextIndex]
    /\ wordsSinceBreak = 0
    /\ mouseMovementEnabled = FALSE
    /\ charsSinceMouseMove = FullTextIndex
    /\ nextMouseMoveAt \in ScheduleNextMouseMove
    /\ skippedCharCount = 0
    /\ skippedCharsPreview = <<>>
    /\ sink = <<>>
    /\ mouse = 0
    /\ ret = NoRet
    /\ obs = [start |-> FullTextIndex, log |-> <<>>]

Init == InitConstructed \/ InitLastChunk

\* engine.setText(text).
SetText ==
    \E text \in EngineTexts :
      /\ chunker' = NewTextChunker(text)
      /\ dynamics' \in NewTypingDynamics(cfg.profile, cfg.delays)
      /\ imperfectionGen' \in
             NewImperfectionGenerator(cfg.imperfections, NewKeyboardLayout(cfg.layout))
      /\ wordsSinceBreak' = 0
      /\ charsSinceMouseMove' = 0
      /\ skippedCharCount' = 0
      /\ skippedCharsPreview' = <<>>
      /\ nextMouseMoveAt' \in ScheduleNextMouseMove
      /\ sink' = <<>>
      /\ mouse' = 0
      /\ ret' = [op |-> "setText", text |-> text]
      /\ obs' = [start |-> 0, log |-> <<>>]
      /\ UNCHANGED <<window, client, cfg, mouseMovementEnabled>>

\* engine.setMouseMovementEnabled(enabled).
SetMouseMovementEnabled ==
    \E enabled \in BOOLEAN :
      /\ mouseMovementEnabled' = enabled
      /\ IF enabled THEN nextMouseMoveAt' \in ScheduleNextMouseMove
         ELSE UNCHANGED nextMouseMoveAt
      /\ ret' = [op |-> "setMouseMovementEnabled"]
      /\ UNCHANGED <<window, client, cfg, chunker, dynamics, imperfectionGen, wordsSinceBreak,
                     charsSinceMouseMove, skippedCharCount, skippedCharsPreview,
                     sink, mouse, obs>>

\* TypingEngine::hasMoreToType().
HasMoreToType == chunker.ptr = "obj" /\ HasMore(chunker)

\* TypingEngine::progressPercent().
EngineProgressPercent ==
    IF chunker.ptr = "obj" THEN ProgressPercent(chunker) ELSE 0

\* TypingEngine::shouldMoveMouse().
ShouldMoveMouse ==
    mouseMovementEnabled /\ cfg.mouseSimulator /\ charsSinceMouseMove >= nextMouseMoveAt

\* Mutant: typeNextChunk with nothing left clears wordsSinceBreak_.
TypeNextChunkExhausted_ClearsWords ==
    /\ ~HasMoreToType
    /\ wordsSinceBreak' = 0
    /\ ret' = [op |-> "typeNextChunk", hadMore |-> FALSE, path |-> "exhausted",
               chunk |-> <<>>, values |-> {0}]
    /\ UNCHANGED <<window, client, cfg, chunker, dynamics, imperfectionGen,
                   mouseMovementEnabled, charsSinceMouseMove, nextMouseMoveAt,
                   skippedCharCount, skippedCharsPreview, sink, mouse, obs>>

\* engine.typeNextChunk() with nothing left to type: it returns 0.
TypeNextChunkExhausted ==
    /\ ~HasMoreToType
    /\ ret' = [op |-> "typeNextChunk", hadMore |-> FALSE, path |-> "exhausted",
               chunk |-> <<>>, values |-> {0}]
    /\ UNCHANGED <<window, client, cfg, chunker, dynamics, imperfectionGen, wordsSinceBreak,
                   mouseMovementEnabled, charsSinceMouseMove, nextMouseMoveAt,
                   skippedCharCount, skippedCharsPreview, sink, mouse, obs>>

\* Mutant: performMouseMovement() does not reset charsSinceMouseMove_.
TypeNextChunkMouse_NoReset ==
    /\ HasMoreToType
    /\ ShouldMoveMouse
    /\ mouse' = mouse + 1
    /\ nextMouseMoveAt' \in ScheduleNextMouseMove
    /\ ret' = [op |-> "typeNextChunk", hadMore |-> TRUE, path |-> "mouse",
               chunk |-> <<>>,
               values |-> RangeDraws(MIN_MOUSE_PAUSE_MS, MAX_MOUSE_PAUSE_MS)]
    /\ UNCHANGED <<window, client, cfg, chunker, dynamics, imperfectionGen, wordsSinceBreak,
                   mouseMovementEnabled, charsSinceMouseMove, skippedCharCount,
                   skippedCharsPreview, sink, obs>>

\* engine.typeNextChunk() when the mouse is due: performMouseMovement()
\* and the pause returned.
TypeNextChunkMouse ==
    /\ HasMoreToType
    /\ ShouldMoveMouse
    /\ mouse' = mouse + 1
    /\ charsSinceMouseMove' = 0
    /\ nextMouseMoveAt' \in ScheduleNextMouseMove
    /\ ret' = [op |-> "typeNextChunk", hadMore |-> TRUE, path |-> "mouse",
               chunk |-> <<>>,
               values |-> RangeDraws(MIN_MOUSE_PAUSE_MS, MAX_MOUSE_PAUSE_MS)]
    /\ UNCHANGED <<window, client, cfg, chunker, dynamics, imperfectionGen, wordsSinceBreak,
                   mouseMovementEnabled, skippedCharCount, skippedCharsPreview,
                   sink, obs>>

\* engine.typeNextChunk() that takes a chunk, types it and returns the
\* delay before the next one.
TypeNextChunkTyped ==
    /\ HasMoreToType
    /\ ~ShouldMoveMouse
    /\ LET next == NextChunk(chunker)
           chunk == next.chunk
           lastChar == chunk[Len(chunk)]
           isSentenceEnd == lastChar \in {".", "!", "?"}
           start == [imperfectionGen |-> imperfectionGen, dynamics |-> dynamics,
                     wordsSinceBreak |-> wordsSinceBreak,
                     charsSinceMouseMove |-> charsSinceMouseMove,
                     skippedCharCount |-> skippedCharCount,
                     skippedCharsPreview |-> skippedCharsPreview,
                     sink |-> sink, log |-> obs.log]
       IN  /\ chunk # <<>>
           /\ chunker' = next.chunker
           /\ \E e \in TypeChunk({start}, chunk, 1) :
              \E burst \in ShouldBurst(e.dynamics) :
              \E isThinkingPause \in ShouldThinkingPause(e.wordsSinceBreak) :
                 LET delay == CalculateDelay(burst.dynamics, lastChar, isSentenceEnd,
                                             burst.value, isThinkingPause)
                 IN  /\ imperfectionGen' = e.imperfectionGen
                     /\ dynamics' = delay.dynamics
                     /\ wordsSinceBreak' = IF isThinkingPause THEN 0
                                           ELSE e.wordsSinceBreak
                     /\ charsSinceMouseMove' = e.charsSinceMouseMove
                     /\ skippedCharCount' = e.skippedCharCount
                     /\ skippedCharsPreview' = e.skippedCharsPreview
                     /\ sink' = e.sink
                     /\ obs' = [obs EXCEPT !.log = e.log]
                     /\ ret' = [op |-> "typeNextChunk", hadMore |-> TRUE,
                                path |-> "typed", chunk |-> chunk,
                                isSentenceEnd |-> isSentenceEnd,
                                isBurst |-> burst.value,
                                isThinkingPause |-> isThinkingPause,
                                values |-> delay.values]
    /\ UNCHANGED <<window, client, cfg, mouseMovementEnabled, nextMouseMoveAt, mouse>>

\* engine.typeNextChunk().
TypeNextChunk == TypeNextChunkExhausted \/ TypeNextChunkMouse \/ TypeNextChunkTyped

\* Mutant: reset() also rewinds the chunker to the start of its text.
Reset_RewindsChunker ==
    /\ IF dynamics.ptr = "obj" THEN dynamics' \in ResetDynamics(dynamics)
       ELSE UNCHANGED dynamics
    /\ IF imperfectionGen.ptr = "obj"
       THEN imperfectionGen' \in ResetImperfection(imperfectionGen)
       ELSE UNCHANGED imperfectionGen
    /\ wordsSinceBreak' = 0
    /\ chunker' = IF chunker.ptr = "obj" THEN NewTextChunker(chunker.text)
                  ELSE chunker
    /\ ret' = [op |-> "reset"]
    /\ UNCHANGED <<window, client, cfg, mouseMovementEnabled, charsSinceMouseMove,
                   nextMouseMoveAt, skippedCharCount, skippedCharsPreview,
                   sink, mouse, obs>>

\* engine.reset().
Reset ==
    /\ IF dynamics.ptr = "obj" THEN dynamics' \in ResetDynamics(dynamics)
       ELSE UNCHANGED dynamics
    /\ IF imperfectionGen.ptr = "obj"
       THEN imperfectionGen' \in ResetImperfection(imperfectionGen)
       ELSE UNCHANGED imperfectionGen
    /\ wordsSinceBreak' = 0
    /\ ret' = [op |-> "reset"]
    /\ UNCHANGED <<window, client, cfg, chunker, mouseMovementEnabled, charsSinceMouseMove,
                   nextMouseMoveAt, skippedCharCount, skippedCharsPreview,
                   sink, mouse, obs>>

Next == SetText \/ SetMouseMovementEnabled \/ TypeNextChunk \/ Reset

Spec == Init /\ [][Next]_vars

\* One text typed to its end: setText is called once, on the engine as
\* constructed, and the caller goes on calling typeNextChunk; the mouse
\* movement may be switched at any time.
SetTextOnce == chunker.ptr = "null" /\ SetText

NextRun == SetTextOnce \/ SetMouseMovementEnabled \/ TypeNextChunk

\* What a call of typeNextChunk made while text remains does to the
\* chunker and to the mouse: the steps of TypeNextChunkMouse and
\* TypeNextChunkTyped, told by these two variables alone.
CallWithText ==
    /\ HasMoreToType
    /\ IF ShouldMoveMouse
       THEN mouse' = mouse + 1 /\ chunker' = chunker
       ELSE mouse' = mouse /\ chunker' = NextChunk(chunker).chunker

\* Weak fairness of the call: while text remains the caller does make the
\* next call.
SpecRun == Init /\ [][NextRun]_vars /\ WF_<<chunker, mouse>>(CallWithText)

---------------------------------------------------------------------------
(* The AutoTyperWindow of src/main.cpp driving the engine.  Its three      *)
(* QTimers live in the GUI thread: a timer is -1 when inactive, and else   *)
(* the milliseconds until its next timeout (0: the timeout is pending).    *)
(* window.sinceAction is currentMSecsSinceEpoch() - lastActionTime_, kept  *)
(* up to SinceActionCap.  window.pc is "idle" when the event loop waits,   *)
(* "calling" while the slot typeNextChunk is inside engine_->              *)
(* typeNextChunk(), and "hung" when a call of the simulator made in there  *)
(* does not return.  The simulator is the LinuxKeyboardSimulator, whose    *)
(* releaseAllKeys is recorded in sink like its other calls.                *)

\* countdownValue_ = 5.
COUNTDOWN_START == 5
\* countdownTimer_->start(1000).
COUNTDOWN_INTERVAL_MS == 1000
\* watchdog_->start(1000).
WATCHDOG_INTERVAL_MS == 1000
\* now - lastActionTime_ > 10000.
WATCHDOG_LIMIT_MS == 10000

\* The largest value of window.sinceAction told apart.
SinceActionCap == WATCHDOG_LIMIT_MS + 2 * WATCHDOG_INTERVAL_MS

\* What textEdit_->toPlainText() can be at a click on Start.
DriverTexts == {Text(<<>>), Text(<<"P", " ", "q", ".">>),
                Repeat(<<"a">>, MAX_CHUNK_LENGTH + 1)}

\* What the widgets of the settings panel can make of the constructor's
\* arguments: the values they start with; the professional profile with
\* the smallest delays and both imperfections unchecked; the largest
\* minimum delay with the smallest maximum.
DriverConfigs ==
    {[ptr |-> "obj", profile |-> humanAdvanced,
      delays |-> [minMs |-> 120, maxMs |-> 2000],
      imperfections |-> DefaultImperfections,
      layout |-> "US_QWERTY", mouseSimulator |-> FALSE],
     [ptr |-> "obj", profile |-> professional,
      delays |-> [minMs |-> 5, maxMs |-> 5],
      imperfections |-> [DefaultImperfections EXCEPT !.enableTypos = FALSE,
                                                     !.enableDoubleKeys = FALSE],
      layout |-> "US_QWERTY", mouseSimulator |-> FALSE],
     [ptr |-> "obj", profile |-> humanAdvanced,
      delays |-> [minMs |-> 5000, maxMs |-> 5],
      imperfections |-> DefaultImperfections,
      layout |-> "US_QWERTY", mouseSimulator |-> FALSE]}

\* The window as its constructor leaves it.
NewWindow ==
    [ptr |-> "obj", engine |-> "null", isTyping |-> FALSE, status |-> "Ready",
     countdownValue |-> 0, startEnabled |-> TRUE, stopEnabled |-> FALSE,
     typingTimer |-> -1, typingInterval |-> 0, countdownTimer |-> -1,
     watchdog |-> -1, sinceAction |-> SinceActionCap, pc |-> "idle"]

InitDriver ==
    /\ window = NewWindow
    /\ client = NullPtr
    /\ cfg = NullPtr
    /\ chunker = NullPtr
    /\ dynamics = NullPtr
    /\ imperfectionGen = NullPtr
    /\ wordsSinceBreak = 0
    /\ mouseMovementEnabled = FALSE
    /\ charsSinceMouseMove = 0
    /\ nextMouseMoveAt = 0
    /\ skippedCharCount = 0
    /\ skippedCharsPreview = <<>>
    /\ sink = <<>>
    /\ mouse = 0
    /\ ret = NoRet
    /\ obs = [start |-> 0, log |-> <<>>, healthy |-> TRUE]

\* The variables of the engine object.
engineMembers == <<cfg, chunker, dynamics, imperfectionGen, wordsSinceBreak,
                   mouseMovementEnabled, charsSinceMouseMove, nextMouseMoveAt,
                   skippedCharCount, skippedCharsPreview, mouse>>

\* The variables of the engine object and of the observer.
engineObject == <<engineMembers, obs>>

\* Mutant: stopTyping() leaves the typing timer running.
StopTyping_KeepsTimer(w, hasMore) ==
    [w EXCEPT !.countdownTimer = -1, !.watchdog = -1,
              !.isTyping = FALSE, !.startEnabled = TRUE, !.stopEnabled = FALSE,
              !.status = IF w.engine = "obj" /\ ~hasMore THEN "Completed!"
                         ELSE "Stopped"]

\* AutoTyperWindow::stopTyping() run on window w: the window after it; the
\* call of releaseAllKeys it makes is StopKeys.
StopTyping(w, hasMore) ==
    [w EXCEPT !.typingTimer = -1, !.countdownTimer = -1, !.watchdog = -1,
              !.isTyping = FALSE, !.startEnabled = TRUE, !.stopEnabled = FALSE,
              !.status = IF w.engine = "obj" /\ ~hasMore THEN "Completed!"
                         ELSE "Stopped"]

StopKeys(s) == Append(s, [call |-> "releaseAllKeys"])

\* AutoTyperWindow::startTyping() past its check of the text: a new engine
\* is made from the settings, given the text, and the countdown and the
\* watchdog are started.
StartSession(text) ==
    /\ cfg' \in DriverConfigs
    /\ chunker' = NewTextChunker(text)
    /\ dynamics' \in NewTypingDynamics(cfg'.profile, cfg'.delays)
    /\ imperfectionGen' \in
           NewImperfectionGenerator(cfg'.imperfections,
                                    NewKeyboardLayout(cfg'.layout))
    /\ wordsSinceBreak' = 0
    /\ mouseMovementEnabled' = FALSE
    /\ charsSinceMouseMove' = 0
    /\ nextMouseMoveAt' \in ScheduleNextMouseMove
    /\ skippedCharCount' = 0
    /\ skippedCharsPreview' = <<>>
    /\ sink' = <<>>
    /\ mouse' = 0
    /\ obs' = [start |-> 0, log |-> <<>>, healthy |-> TRUE]
    /\ client' = client
    /\ window' = [window EXCEPT !.engine = "obj",
                                !.countdownValue = COUNTDOWN_START,
                                !.isTyping = TRUE,
                                !.startEnabled = FALSE,
                                !.stopEnabled = TRUE,
                                !.status = "Get ready...",
                                !.countdownTimer = COUNTDOWN_INTERVAL_MS,
                                !.sinceAction = 0,
                                !.watchdog = WATCHDOG_INTERVAL_MS]

\* startTyping() without its check of the text.
StartTyping_NoCheck ==
    /\ window.pc = "idle"
    /\ window.startEnabled
    /\ \E text \in DriverTexts :
         /\ ret' = [op |-> "startTyping", text |-> text]
         /\ StartSession(text)

\* AutoTyperWindow::startTyping(), the slot of the Start button.
StartTyping ==
    /\ window.pc = "idle"
    /\ window.startEnabled
    /\ \E text \in DriverTexts :
         /\ ret' = [op |-> "startTyping", text |-> text]
         /\ IF TextLength(text) = 0
            THEN /\ window' = [window EXCEPT
                                  !.status = "Error: No text to process!"]
                 /\ UNCHANGED <<engineObject, sink, client>>
            ELSE StartSession(text)

\* A click on Stop, or the Escape key while isTyping_: stopTyping().
RequestStop ==
    /\ window.pc = "idle"
    /\ window.stopEnabled \/ window.isTyping
    /\ window' = StopTyping(window, HasMoreToType)
    /\ sink' = StopKeys(sink)
    /\ ret' = [op |-> "stopTyping"]
    /\ UNCHANGED <<engineObject, client>>

\* The timers of window w that are active.
ActiveTimers(w) ==
    {t \in {w.typingTimer, w.countdownTimer, w.watchdog} : t >= 0}

\* The window w after ms milliseconds have passed.
Later(w, ms) ==
    LET run(t) == IF t < 0 THEN t ELSE IF t > ms THEN t - ms ELSE 0
        since == w.sinceAction + ms
    IN  [w EXCEPT !.typingTimer = run(@), !.countdownTimer = run(@),
                  !.watchdog = run(@),
                  !.sinceAction = IF since > SinceActionCap THEN SinceActionCap
                                  ELSE since]

\* The event loop waits until the next timer runs out.
Elapse ==
    /\ window.pc = "idle"
    /\ ActiveTimers(window) # {}
    /\ \A t \in ActiveTimers(window) : t > 0
    /\ \E ms \in ActiveTimers(window) :
         /\ \A t \in ActiveTimers(window) : ms <= t
         /\ window' = Later(window, ms)
    /\ ret' = [op |-> "elapse"]
    /\ UNCHANGED <<engineObject, sink, client>>

\* The slot AutoTyperWindow::typeNextChunk() up to its call of
\* engine_->typeNextChunk(), run on window w.
BeginChunk(w) ==
    IF ~w.isTyping \/ w.engine # "obj" \/ ~HasMoreToType
    THEN /\ window' = StopTyping(w, HasMoreToType)
         /\ sink' = StopKeys(sink)
    ELSE /\ window' = [w EXCEPT !.sinceAction = 0, !.pc = "calling"]
         /\ UNCHANGED sink

\* Mutant: updateCountdown() starts to type at its first call.
UpdateCountdown_FirstTick ==
    /\ window.pc = "idle"
    /\ window.countdownTimer = 0
    /\ BeginChunk([window EXCEPT !.countdownValue = @ - 1,
                                  !.countdownTimer = -1,
                                  !.status = "Processing..."])
    /\ ret' = [op |-> "updateCountdown"]
    /\ UNCHANGED <<engineObject, client>>

\* AutoTyperWindow::updateCountdown(), the slot of countdownTimer_.
UpdateCountdown ==
    /\ window.pc = "idle"
    /\ window.countdownTimer = 0
    /\ LET w == [window EXCEPT !.countdownValue = @ - 1,
                               !.countdownTimer = COUNTDOWN_INTERVAL_MS]
       IN  IF w.countdownValue > 0
           THEN /\ window' = [w EXCEPT !.status = "Get ready..."]
                /\ UNCHANGED sink
           ELSE BeginChunk([w EXCEPT !.countdownTimer = -1,
                                     !.status = "Processing..."])
    /\ ret' = [op |-> "updateCountdown"]
    /\ UNCHANGED <<engineObject, client>>

\* The timeout of typingTimer_: the slot typeNextChunk() begins.
TypingTimeout ==
    /\ window.pc = "idle"
    /\ window.typingTimer = 0
    /\ BeginChunk([window EXCEPT !.typingTimer = window.typingInterval])
    /\ ret' = [op |-> "typingTimeout"]
    /\ UNCHANGED <<engineObject, client>>

\* engine_->typeNextChunk() inside the slot; the mouse movement is never
\* enabled by this window.
EngineCall ==
    /\ window.pc = "calling"
    /\ ret.op # "typeNextChunk"
    /\ TypeNextChunkTyped

\* A call of the simulator made by engine_->typeNextChunk() does not
\* return: the GUI thread stays inside the slot.
SinkHangs ==
    /\ window.pc = "calling"
    /\ ret.op # "typeNextChunk"
    /\ window' = [window EXCEPT !.pc = "hung"]
    /\ ret' = [op |-> "hang"]
    /\ UNCHANGED <<engineObject, sink, client>>

\* Time passes while the GUI thread is inside the call that does not
\* return: the timeouts become pending, no slot runs.
HungElapse ==
    /\ window.pc = "hung"
    /\ \E ms \in {WATCHDOG_INTERVAL_MS} :
         /\ window' = Later(window, ms)
    /\ window' # window
    /\ ret' = [op |-> "elapse"]
    /\ UNCHANGED <<engineObject, sink, client>>

\* The longest pauses of the loop of typeNextChunk and the hold of
\* pressBackspace.
BACKSPACE_HOLD_MS == 10
MAX_BACKSPACE_DELAY_MS == 90
MAX_CORRECTION_DELAY_MS == 160
MAX_DOUBLE_KEY_DELAY_MS == 40

\* The smallest and the largest member of a set of numbers.
SetMin(S) == CHOOSE x \in S : \A y \in S : x <= y
SetMax(S) == CHOOSE x \in S : \A y \in S : x >= y

\* The longest time the key emissions of one processed character take:
\* the msleep of each typeCharacter and pressBackspace and the pauses of
\* the loop of typeNextChunk between them.
EmissionMs(entry) ==
    SetMax(GenerateHoldTime(entry.result.character))
    + (IF entry.result.shouldDouble
       THEN MAX_DOUBLE_KEY_DELAY_MS
            + SetMax(GenerateHoldTime(entry.result.character))
       ELSE 0)
    + (IF entry.result.shouldCorrect
       THEN MAX_CORRECTION_DELAY_MS + BACKSPACE_HOLD_MS
            + MAX_BACKSPACE_DELAY_MS
            + SetMax(GenerateHoldTime(entry.original))
       ELSE 0)

RECURSIVE SumEmissionMs(_, _)
\* The emission times of the entries of log from the i-th on, added up.
SumEmissionMs(log, i) ==
    IF i > Len(log) THEN 0 ELSE EmissionMs(log[i]) + SumEmissionMs(log, i + 1)

\* The longest time the key emissions of the chunk just typed take: those
\* of its typeable characters, the last ones of the log.
ChunkEmissionMs ==
    LET typed == Cardinality({i \in DOMAIN ret.chunk : IsTypeable(ret.chunk[i])})
    IN  SumEmissionMs(obs.log, Len(obs.log) - typed + 1)

\* How long engine_->typeNextChunk() can block the GUI thread: the time of
\* its key emissions, and longer than the watchdog allows when the
\* processes it executes are slow.
BlockingTimes == {ChunkEmissionMs, WATCHDOG_LIMIT_MS + WATCHDOG_INTERVAL_MS}

\* The slot AutoTyperWindow::typeNextChunk() after engine_->typeNextChunk()
\* has returned delayMs, ms milliseconds after it was called.  The observer
\* notes whether the call took longer than its key emissions.
EndChunk ==
    /\ window.pc = "calling"
    /\ ret.op = "typeNextChunk"
    /\ \E ms \in BlockingTimes :
       \E delayMs \in {SetMin(ret.values), SetMax(ret.values)} :
         LET w == [Later(window, ms) EXCEPT !.status = "Processing...",
                                           !.pc = "idle"]
         IN  /\ obs' = [obs EXCEPT !.healthy = @ /\ ms <= ChunkEmissionMs]
             /\ IF HasMoreToType
                THEN /\ window' = [w EXCEPT !.typingTimer = delayMs,
                                            !.typingInterval = delayMs]
                     /\ UNCHANGED sink
                ELSE /\ window' = StopTyping(w, HasMoreToType)
                     /\ sink' = StopKeys(sink)
    /\ ret' = [op |-> "typeNextChunkSlot"]
    /\ UNCHANGED <<engineMembers, client>>

\* AutoTyperWindow::watchdogCheck(), the slot of watchdog_.  The dash of its
\* notice is U+2014 in the source.
WatchdogCheck ==
    /\ window.pc = "idle"
    /\ window.watchdog = 0
    /\ LET w == [window EXCEPT !.watchdog = WATCHDOG_INTERVAL_MS]
       IN  IF ~w.isTyping
           THEN /\ window' = w
                /\ UNCHANGED sink
           ELSE IF w.sinceAction > WATCHDOG_LIMIT_MS
           THEN /\ window' = StopTyping([w EXCEPT !.status =
                                             "Watchdog triggered - Reset"],
                                        HasMoreToType)
                /\ sink' = StopKeys(StopKeys(sink))
           ELSE /\ window' = w
                /\ UNCHANGED sink
    /\ ret' = [op |-> "watchdogCheck"]
    /\ UNCHANGED <<engineObject, client>>

\* The timers of window w are all inactive.
TimersOff(w) == w.typingTimer < 0 /\ w.countdownTimer < 0 /\ w.watchdog < 0

NextDriver ==
    \/ StartTyping \/ RequestStop \/ Elapse \/ UpdateCountdown
    \/ TypingTimeout \/ EngineCall \/ SinkHangs \/ HungElapse \/ EndChunk
    \/ WatchdogCheck

SpecDriver == InitDriver /\ [][NextDriver]_vars

\* The first click on Start.
StartTypingOnce == window.engine = "null" /\ StartTyping

\* The first session of a window, in which every call of the simulator
\* returns.
NextSession ==
    \/ StartTypingOnce \/ RequestStop \/ Elapse \/ UpdateCountdown
    \/ TypingTimeout \/ EngineCall \/ EndChunk \/ WatchdogCheck

\* What the event loop does for the timers: it waits for the next timeout
\* and runs the slot of a timeout that is pending; the slot typeNextChunk
\* runs to its end.
TimerStep ==
    Elapse \/ UpdateCountdown \/ TypingTimeout \/ EndChunk \/ WatchdogCheck

\* What EngineCall does to the chunker.
EngineCallChunk ==
    /\ window.pc = "calling"
    /\ ret.op # "typeNextChunk"
    /\ chunker' = NextChunk(chunker).chunker

\* Fair timers: a timeout that is due is served, and a slot that has begun
\* goes on.
SpecSession ==
    /\ InitDriver /\ [][NextSession]_vars
    /\ WF_vars(TimerStep)
    /\ WF_<<chunker>>(EngineCallChunk)

---------------------------------------------------------------------------
(* The WebSocket client of src/websocket/qtype_client.cpp: the command     *)
(* loop of main() and the typing threads it starts.  client holds the      *)
(* locals of main() (isBusy, shouldStop, the settings of its TypingEngine, *)
(* the messages given to ws.sendMessage) and, per start_typing command     *)
(* accepted, the position of the thread made for it.  Each step of a       *)
(* thread holds one access to an atomic flag.  sink holds the keys typed   *)
(* since the last command accepted, and obs what the observer notes about  *)
(* the session of that command: the phase in which a stop_typing first     *)
(* came (obs.stopped) and the keys typed after it (obs.afterStop).         *)

\* The start_typing commands accepted in a run of the model.
MaxSessions == 3

\* for (int i = 5; ...) in typeText.
COUNTDOWN_SECONDS == 5

\* The texts of the start_typing commands.
ClientTexts == {<<>>, <<"a">>, <<"a", "b">>}

\* The minDelay, maxDelay and mouseMovement of the commands: absent (the
\* defaults) and given.
ClientSettings ==
    {[minDelayMs |-> 120, maxDelayMs |-> 2000, mouseMovementEnabled |-> FALSE],
     [minDelayMs |-> 5, maxDelayMs |-> 50, mouseMovementEnabled |-> TRUE]}

\* main() when it enters its loop: connected, "ready" sent.
NewClient ==
    [ptr |-> "obj", isBusy |-> FALSE, shouldStop |-> FALSE,
     engine |-> [minDelayMs |-> 120, maxDelayMs |-> 2000,
                 mouseMovementEnabled |-> FALSE],
     sent |-> <<[status |-> "ready", session |-> 0]>>,
     threads |-> <<>>, pc |-> "receive", text |-> <<>>]

InitClient ==
    /\ client = NewClient
    /\ window = NullPtr
    /\ cfg = NullPtr
    /\ chunker = NullPtr
    /\ dynamics = NullPtr
    /\ imperfectionGen = NullPtr
    /\ wordsSinceBreak = 0
    /\ mouseMovementEnabled = FALSE
    /\ charsSinceMouseMove = 0
    /\ nextMouseMoveAt = 0
    /\ skippedCharCount = 0
    /\ skippedCharsPreview = <<>>
    /\ sink = <<>>
    /\ mouse = 0
    /\ ret = NoRet
    /\ obs = [start |-> 0, stopped |-> "none", afterStop |-> 0]

\* The threads that are inside engine.typeText.
InTypeText ==
    {t \in DOMAIN client.threads :
        client.threads[t].pc \in {"countdown", "afterCountdown", "loop", "typing"}}

\* Mutant: the command loop does not look at isBusy.
ReceiveStart_NoBusyCheck ==
    /\ client.pc = "receive"
    /\ Len(client.threads) < MaxSessions
    /\ \E hasText \in BOOLEAN, text \in ClientTexts, settings \in ClientSettings :
         IF ~hasText
         THEN /\ ret' = [op |-> "start_typing", outcome |-> "no text"]
              /\ client' = client
         ELSE /\ ret' = [op |-> "start_typing", outcome |-> "accepted"]
              /\ client' = [client EXCEPT !.pc = "configure", !.text = text,
                                          !.engine = settings]
    /\ UNCHANGED <<engineMembers, window, sink, obs>>

\* The command loop receives a start_typing message: ignored while isBusy
\* and when it has no text; else the text is taken and the settings are
\* given to the engine.
ReceiveStart ==
    /\ client.pc = "receive"
    /\ Len(client.threads) < MaxSessions
    /\ \E hasText \in BOOLEAN, text \in ClientTexts, settings \in ClientSettings :
         IF client.isBusy
         THEN /\ ret' = [op |-> "start_typing", outcome |-> "ignored"]
              /\ client' = client
         ELSE IF ~hasText
         THEN /\ ret' = [op |-> "start_typing", outcome |-> "no text"]
              /\ client' = client
         ELSE /\ ret' = [op |-> "start_typing", outcome |-> "accepted"]
              /\ client' = [client EXCEPT !.pc = "configure", !.text = text,
                                          !.engine = settings]
    /\ UNCHANGED <<engineMembers, window, sink, obs>>

\* The rest of the handling of an accepted start_typing: the stop flag is
\* reset, isBusy set, "busy" sent and the typing thread started.
StartThread ==
    /\ client.pc = "configure"
    /\ client' = [client EXCEPT
                     !.shouldStop = FALSE,
                     !.isBusy = TRUE,
                     !.sent = Append(@, [status |-> "busy",
                                         session |-> Len(client.threads) + 1]),
                     !.threads = Append(@, [pc |-> "countdown",
                                            text |-> client.text,
                                            i |-> COUNTDOWN_SECONDS,
                                            index |-> 1]),
                     !.pc = "receive", !.text = <<>>]
    /\ sink' = <<>>
    /\ obs' = [obs EXCEPT !.stopped = "none", !.afterStop = 0]
    /\ ret' = [op |-> "startThread"]
    /\ UNCHANGED <<engineMembers, window>>

\* The command loop receives a stop_typing message.
ReceiveStop ==
    /\ client.pc = "receive"
    /\ client' = [client EXCEPT !.shouldStop = TRUE]
    /\ obs' = [obs EXCEPT !.stopped =
                  IF @ # "none" \/ InTypeText = {} THEN @
                  ELSE IF \E t \in InTypeText :
                            client.threads[t].pc \in {"countdown", "afterCountdown"}
                  THEN "countdown" ELSE "typing"]
    /\ ret' = [op |-> "stop_typing"]
    /\ UNCHANGED <<engineMembers, window, sink>>

\* typeText: one turn of the countdown loop of thread t.
Countdown(t) ==
    /\ client.threads[t].pc = "countdown"
    /\ client' = IF client.threads[t].i > 0 /\ ~client.shouldStop
                 THEN [client EXCEPT !.threads[t].i = @ - 1]
                 ELSE [client EXCEPT !.threads[t].pc = "afterCountdown"]
    /\ ret' = [op |-> "countdown"]
    /\ UNCHANGED <<engineMembers, window, sink, obs>>

\* typeText: if (shouldStop) return, after the countdown.
AfterCountdown(t) ==
    /\ client.threads[t].pc = "afterCountdown"
    /\ client' = [client EXCEPT !.threads[t].pc =
                     IF client.shouldStop THEN "returned" ELSE "loop"]
    /\ ret' = [op |-> "afterCountdown"]
    /\ UNCHANGED <<engineMembers, window, sink, obs>>

\* Mutant: the typing loop does not look at shouldStop.
LoopCheck_NoStop(t) ==
    /\ client.threads[t].pc = "loop"
    /\ client' = [client EXCEPT !.threads[t].pc =
                     IF client.threads[t].index > Len(client.threads[t].text)
                     THEN "returned" ELSE "typing"]
    /\ ret' = [op |-> "loopCheck"]
    /\ UNCHANGED <<engineMembers, window, sink, obs>>

\* typeText: the head of the typing loop, with its if (shouldStop) break.
LoopCheck(t) ==
    /\ client.threads[t].pc = "loop"
    /\ client' = [client EXCEPT !.threads[t].pc =
                     IF \/ client.threads[t].index > Len(client.threads[t].text)
                        \/ client.shouldStop
                     THEN "returned" ELSE "typing"]
    /\ ret' = [op |-> "loopCheck"]
    /\ UNCHANGED <<engineMembers, window, sink, obs>>

\* typeText: the body of the typing loop, one character typed.
TypeOne(t) ==
    /\ client.threads[t].pc = "typing"
    /\ sink' = Append(sink, [call |-> "typeCharacter",
                             c |-> client.threads[t].text[client.threads[t].index],
                             session |-> t])
    /\ client' = [client EXCEPT !.threads[t].index = @ + 1,
                                !.threads[t].pc = "loop"]
    /\ obs' = [obs EXCEPT !.afterStop = IF client.shouldStop THEN @ + 1 ELSE @]
    /\ ret' = [op |-> "typeCharacter"]
    /\ UNCHANGED <<engineMembers, window>>

\* The thread after engine.typeText has returned: isBusy = false.
ThreadReturn(t) ==
    /\ client.threads[t].pc = "returned"
    /\ client' = [client EXCEPT
                     !.isBusy = FALSE,
                     !.threads[t] = [pc |-> "notify", text |-> <<>>,
                                     i |-> 0, index |-> 0]]
    /\ ret' = [op |-> "typeTextReturned"]
    /\ UNCHANGED <<engineMembers, window, sink, obs>>

\* The thread sends "free" and ends.
Notify(t) ==
    /\ client.threads[t].pc = "notify"
    /\ client' = [client EXCEPT
                     !.sent = Append(@, [status |-> "free", session |-> t]),
                     !.threads[t].pc = "exited"]
    /\ ret' = [op |-> "notify"]
    /\ UNCHANGED <<engineMembers, window, sink, obs>>

\* A step of a typing thread.
ThreadStep ==
    \E t \in DOMAIN client.threads :
        \/ Countdown(t) \/ AfterCountdown(t) \/ LoopCheck(t) \/ TypeOne(t)
        \/ ThreadReturn(t) \/ Notify(t)

NextClient == ReceiveStart \/ StartThread \/ ReceiveStop \/ ThreadStep

\* The threads are scheduled: a thread that can take a step takes one.
SpecClient == InitClient /\ [][NextClient]_vars /\ WF_vars(ThreadStep)

---------------------------------------------------------------------------
(* Claims about the TextChunker, checked under SpecChunker.                *)

\* The characters at which nextChunk ends a word run.
IsBoundaryChar(c) == c = "\n" \/ c = "\t" \/ c \in punct \/ IsSpace(c)

\* A call of nextChunk that was made while hasMore() was true.
ChunkReturned == ret.op = "nextChunk" /\ ret.hadMore

\* C1: every chunk nextChunk returns while text is left is non-empty, the
\* chunks returned so far are, concatenated in order, exactly the text
\* consumed so far, and once hasMore() is false they are the whole text.
C1_Reconstruction ==
    /\ ChunkReturned => ret.chunk # <<>>
    /\ obs.out = TextSlice(chunker.text, obs.start, chunker.currentIndex)
    /\ ~HasMore(chunker) =>
          obs.out = TextSlice(chunker.text, obs.start, TextLength(chunker.text))

\* C1 witness: the three chunks "a", " ", "T" were returned and the text
\* "a T" is exhausted.
C1_Witness ==
    /\ chunker.text = Text(<<"a", " ", "T">>)
    /\ ret.op = "nextChunk"
    /\ ~HasMore(chunker)
    /\ obs.out = <<"a", " ", "T">>

\* C2: a chunk is one boundary character (newline, tab, punctuation, white
\* space) or a run of 1..12 other characters, taken contiguously from the
\* text and cut only before a boundary character, at the cap of 12 or at
\* the end of the text.
C2_ChunkShape ==
    ChunkReturned =>
      /\ ret.chunk = TextSlice(chunker.text, ret.from, chunker.currentIndex)
      /\ \/ Len(ret.chunk) = 1 /\ IsBoundaryChar(ret.chunk[1])
         \/ /\ Len(ret.chunk) \in 1..MAX_CHUNK_LENGTH
            /\ \A i \in DOMAIN ret.chunk : ~IsBoundaryChar(ret.chunk[i])
            /\ \/ Len(ret.chunk) = MAX_CHUNK_LENGTH
               \/ ~HasMore(chunker)
               \/ IsBoundaryChar(TextAt(chunker.text, chunker.currentIndex))

\* C2 witness: a word run was cut at the cap although the next character
\* continues the word.
C2_Witness ==
    /\ ChunkReturned
    /\ Len(ret.chunk) = MAX_CHUNK_LENGTH
    /\ HasMore(chunker)
    /\ ~IsBoundaryChar(TextAt(chunker.text, chunker.currentIndex))

\* C4: 0 <= currentIndex <= length; a call of nextChunk never decreases
\* currentIndex; hasMore() is true exactly when currentIndex < length; and
\* nextChunk on an exhausted chunker returns the empty string and leaves
\* currentIndex where it was.
C4_IndexBounds ==
    /\ 0 <= chunker.currentIndex
    /\ chunker.currentIndex <= TextLength(chunker.text)
    /\ ret.op = "nextChunk" => ret.from <= chunker.currentIndex
    /\ ret.op = "nextChunk" =>
          (ret.hadMore <=> ret.from < TextLength(chunker.text))
    /\ (ret.op = "nextChunk" /\ ~ret.hadMore) =>
          ret.chunk = <<>> /\ chunker.currentIndex = ret.from

\* C4 witness: nextChunk was called on an exhausted chunker of a text that
\* is not empty.
C4_Witness ==
    /\ ret.op = "nextChunk"
    /\ ~ret.hadMore
    /\ TextLength(chunker.text) > 0
    /\ ret.from = TextLength(chunker.text)

\* floor(idx * 100 / len) for 0 <= idx <= len, len > 0, computed digit by
\* digit so that no intermediate value exceeds 10 * len.
ExactPercent(idx, len) ==
    LET q  == idx \div len
        r  == idx % len
        d1 == (10 * r) \div len
        r1 == (10 * r) % len
        d2 == (10 * r1) \div len
    IN  100 * q + 10 * d1 + d2

\* C5: progressPercent() is floor(currentIndex*100/length) (100 for the
\* empty text), lies in 0..100, is 0 at index 0 of a text that is not empty,
\* is 100 exactly when nothing is left, and no call lowers it.
C5_Progress ==
    LET p == ProgressPercent(chunker)
    IN  /\ p \in 0..100
        /\ TextLength(chunker.text) > 0 =>
              p = ExactPercent(chunker.currentIndex, TextLength(chunker.text))
        /\ TextLength(chunker.text) = 0 => p = 100
        /\ (p = 100) <=> ~HasMore(chunker)
        /\ ret.op = "nextChunk" =>
              ProgressPercent([chunker EXCEPT !.currentIndex = ret.from]) <= p

---------------------------------------------------------------------------
(* Claims about the ImperfectionGenerator, checked under SpecImperfection. *)

\* C8: processCharacter returns a character other than the original only
\* for a letter; a digit, a punctuation mark or a white-space character -
\* the one just processed, and any that could be processed next - comes
\* back unchanged and is never flagged shouldCorrect.
C8_TyposOnlyOnLetters ==
    /\ ret.op = "processCharacter" =>
          /\ ret.result.character # ret.original => IsLetter(ret.original)
          /\ ~IsLetter(ret.original) => ~ret.result.shouldCorrect
    /\ \A c \in Char : ~IsLetter(c) =>
          \A r \in ProcessCharacter(imperfectionGen, c) :
             r.result.character = c /\ ~r.result.shouldCorrect

\* C8 witness: a digit was processed while typos are enabled and the typo
\* counter had reached its threshold; the typo stays due.
C8_Witness ==
    /\ ret.op = "processCharacter"
    /\ ret.original = "7"
    /\ imperfectionGen.settings.enableTypos
    /\ imperfectionGen.settings.enableAutoCorrection
    /\ imperfectionGen.charsSinceLastTypo >= imperfectionGen.nextTypoAt

\* C9: shouldDouble is never true for a white-space character, the one just
\* processed or any that could be processed next.
C9_NoDoubleOnSpace ==
    /\ (ret.op = "processCharacter" /\ IsSpace(ret.original)) =>
          ~ret.result.shouldDouble
    /\ \A c \in Char : IsSpace(c) =>
          \A r \in ProcessCharacter(imperfectionGen, c) : ~r.result.shouldDouble

\* C9 witness: a space was processed while double keys are enabled and the
\* double-key counter had reached its threshold.
C9_Witness ==
    /\ ret.op = "processCharacter"
    /\ ret.original = " "
    /\ imperfectionGen.settings.enableDoubleKeys
    /\ imperfectionGen.charsSinceLastDouble >= imperfectionGen.nextDoubleAt

\* C10: with typos and double keys disabled every call of processCharacter
\* returns the original character and neither flag, however many calls
\* came before.
C10_DisabledNeverTriggers ==
    (/\ ret.op = "processCharacter"
     /\ ~imperfectionGen.settings.enableTypos
     /\ ~imperfectionGen.settings.enableDoubleKeys) =>
        /\ ret.result.character = ret.original
        /\ ~ret.result.shouldDouble
        /\ ~ret.result.shouldCorrect

\* Whether getNeighborKey finds the lower-cased c in one of the three rows.
InTable(layout, c) ==
    \E r \in 1..3 : IndexOf(layout.rows[r], ToLower(c)) # -1

C34_TypoSchedule ==
    /\ []((imperfectionGen.ptr = "obj" /\ imperfectionGen.settings.enableTypos) =>
             /\ imperfectionGen.settings.typoMin <= imperfectionGen.nextTypoAt
             /\ imperfectionGen.nextTypoAt <= imperfectionGen.settings.typoMax)
    /\ [][(ret'.op = "processCharacter" /\ imperfectionGen.settings.enableTypos) =>
             LET due == imperfectionGen.charsSinceLastTypo
                           >= imperfectionGen.nextTypoAt - 1
             IN  /\ ret'.result.typo =>
                       imperfectionGen.charsSinceLastTypo
                           >= imperfectionGen.settings.typoMin - 1
                 /\ ret'.result.typo <=> (due /\ IsLetter(ret'.original))]_vars


---------------------------------------------------------------------------
(* Claims about the TypingEngine, checked under Spec.                      *)

\* Whether typos and double keys are both switched off in the engine.
ImperfectionsDisabled ==
    ~cfg.imperfections.enableTypos /\ ~cfg.imperfections.enableDoubleKeys

\* Whether every character of text t has a code point below 128.
IsAsciiText(t) ==
    \A i \in 1..Len(t.pat) : i <= TextLength(t) => Unicode(t.pat[i]) < 128

\* C3: with typos and double keys disabled and an ASCII-only text, the
\* simulator receives exactly the characters of the text, one typeCharacter
\* call per character, in source order, and no backspace: at every moment
\* the calls received since observation started at index obs.start are the
\* characters from there up to the chunker's index, which is the end of
\* the text once hasMoreToType() is false.
C3_ExactEmission ==
    (chunker.ptr = "obj" /\ ImperfectionsDisabled /\ IsAsciiText(chunker.text))
    => /\ Len(sink) = chunker.currentIndex - obs.start
       /\ \A i \in DOMAIN sink :
             /\ sink[i].call = "typeCharacter"
             /\ sink[i].c = TextAt(chunker.text, obs.start + i - 1)
       /\ ~HasMoreToType => chunker.currentIndex = TextLength(chunker.text)

\* The characters calculateDelay is asked about: a letter, a letter that
\* ends a fast digraph, a digit, a space, a newline, a full stop and a
\* non-ASCII character.
DelayChars == {"q", "h", "7", " ", "\n", ".", "U+2014"}

\* C6: every value typeNextChunk returns when hasMoreToType() was true
\* lies in [MIN_DELAY_MS, MAX_DELAY_MS]; and so does every value
\* calculateDelay can return when it is called, with any character and any
\* combination of its three flags, on the dynamics an engine holds after
\* setText or reset (profiles with and without bursts, stutter and noise;
\* delay ranges that are negative, beyond the clamp and with minMs > maxMs).
C6_DelayBounds ==
    /\ (ret.op = "typeNextChunk" /\ ret.hadMore)
       => /\ ret.values # {}
          /\ \A v \in ret.values : MIN_DELAY_MS <= v /\ v <= MAX_DELAY_MS
    /\ ret.op \in {"setText", "reset"}
       => \A ch \in DelayChars, isSentenceEnd, isBurst, isThinkingPause \in BOOLEAN :
             dynamics.ptr = "obj"
             => \A v \in CalculateDelay(dynamics, ch, isSentenceEnd, isBurst,
                                        isThinkingPause).values :
                   MIN_DELAY_MS <= v /\ v <= MAX_DELAY_MS

\* C6 witness: typeNextChunk has typed a chunk and applied a thinking
\* pause, and the delay it returned can be either end of the interval.
C6_Witness ==
    /\ ret.op = "typeNextChunk"
    /\ ret.path = "typed"
    /\ ret.isThinkingPause
    /\ MIN_DELAY_MS \in ret.values
    /\ MAX_DELAY_MS \in ret.values

\* C7: every hold time passed to typeCharacter lies in
\* [MIN_HOLD_TIME_MS, MAX_HOLD_TIME_MS], whichever emission the call is:
\* the first, the double-key repetition or the re-emission after the
\* backspace of a correction.
C7_HoldBounds ==
    \A i \in DOMAIN sink :
       sink[i].call = "typeCharacter"
       => /\ sink[i].holdTimeMs # {}
          /\ \A h \in sink[i].holdTimeMs :
                MIN_HOLD_TIME_MS <= h /\ h <= MAX_HOLD_TIME_MS

\* C7 witness: the simulator has received a double-key repetition and a
\* re-emission after a backspace, with hold times at both ends of the
\* interval.
C7_Witness ==
    /\ \E i \in DOMAIN sink :
          /\ i > 1
          /\ sink[i].call = "typeCharacter"
          /\ sink[i - 1] = sink[i]
    /\ \E i \in DOMAIN sink :
          /\ i > 1
          /\ sink[i].call = "typeCharacter"
          /\ sink[i - 1].call = "pressBackspace"
          /\ MIN_HOLD_TIME_MS \in sink[i].holdTimeMs
          /\ MAX_HOLD_TIME_MS \in sink[i].holdTimeMs

\* The positions of the pressBackspace calls the simulator has received.
BackspaceCalls == {p \in DOMAIN sink : sink[p].call = "pressBackspace"}

\* The position of the j-th pressBackspace call.
NthBackspace(j) ==
    CHOOSE p \in BackspaceCalls : Cardinality({q \in BackspaceCalls : q <= p}) = j

\* The characters for which processCharacter generated a typo, in order.
TypoEntries == SelectSeq(obs.log, LAMBDA entry : entry.result.typo)

\* C12: with typos and auto-correction enabled and correctionProbability =
\* 100, the simulator has received as many pressBackspace calls as typos were
\* generated, at every point of the session and so at its end; the j-th
\* backspace comes after the substituted character of the j-th typo and is
\* immediately followed by typeCharacter of its original character.
C12_BackspacePerTypo ==
    (/\ cfg.imperfections.enableTypos
     /\ cfg.imperfections.enableAutoCorrection
     /\ cfg.imperfections.correctionProbability = 100) =>
        /\ Cardinality(BackspaceCalls) = Len(TypoEntries)
        /\ \A j \in 1..Len(TypoEntries) :
              LET p == NthBackspace(j)
              IN  /\ p > 1 /\ p < Len(sink)
                  /\ sink[p - 1].call = "typeCharacter"
                  /\ sink[p - 1].c = TypoEntries[j].result.character
                  /\ sink[p + 1].call = "typeCharacter"
                  /\ sink[p + 1].c = TypoEntries[j].original

\* C12 witness: a text was typed to its end with correctionProbability = 100
\* and a typo was generated and corrected on the way.
C12_Witness ==
    /\ cfg.imperfections.enableTypos
    /\ cfg.imperfections.enableAutoCorrection
    /\ cfg.imperfections.correctionProbability = 100
    /\ chunker.ptr = "obj" /\ ~HasMoreToType
    /\ Len(TypoEntries) >= 1
    /\ Cardinality(BackspaceCalls) = Len(TypoEntries)

\* The characters for which processCharacter set shouldCorrect, in order.
CorrectEntries == SelectSeq(obs.log, LAMBDA entry : entry.result.shouldCorrect)

\* C13: processCharacter sets shouldCorrect only on a call on which the typo
\* block ran for that character, with typos enabled and the character a
\* letter, and never when enableAutoCorrection is false or
\* correctionProbability is 0; the engine sends one pressBackspace per
\* character flagged shouldCorrect, each of them a character with a typo.
C13_CorrectOnlyOnTypo ==
    /\ (ret.op = "processCharacter" /\ ret.result.shouldCorrect) =>
          /\ ret.result.typo
          /\ imperfectionGen.settings.enableTypos
          /\ IsLetter(ret.original)
          /\ imperfectionGen.settings.enableAutoCorrection
          /\ imperfectionGen.settings.correctionProbability > 0
    /\ chunker.ptr = "obj" =>
          /\ Cardinality(BackspaceCalls) = Len(CorrectEntries)
          /\ \A j \in 1..Len(CorrectEntries) : CorrectEntries[j].result.typo

\* The calls the simulator has received, without their hold times.
SinkCalls ==
    [p \in DOMAIN sink |->
        IF sink[p].call = "typeCharacter" THEN <<"typeCharacter", sink[p].c>>
        ELSE <<sink[p].call>>]

\* The calls one source character stands for: typeCharacter(character),
\* once more when flagged shouldDouble, then pressBackspace and
\* typeCharacter(original) when flagged shouldCorrect.
Protocol(entry) ==
    LET key == <<"typeCharacter", entry.result.character>>
    IN  CASE entry.result.shouldCorrect /\ ~entry.result.shouldDouble ->
                <<key, <<"pressBackspace">>, <<"typeCharacter", entry.original>>>>
          [] entry.result.shouldDouble /\ ~entry.result.shouldCorrect ->
                <<key, key>>
          [] ~entry.result.shouldDouble /\ ~entry.result.shouldCorrect ->
                <<key>>
          [] entry.result.shouldDouble /\ entry.result.shouldCorrect ->
                <<key, key, <<"pressBackspace">>, <<"typeCharacter", entry.original>>>>

RECURSIVE ProtocolOf(_)
\* The protocols of the characters of log, one after the other.
ProtocolOf(log) ==
    IF log = <<>> THEN <<>> ELSE Protocol(Head(log)) \o ProtocolOf(Tail(log))

\* C14: the calls the simulator has received are the protocols of the source
\* characters processed, one whole protocol after the other in source
\* order: substituted, backspace, original for a character flagged only
\* shouldCorrect; the effective character twice for one flagged only
\* shouldDouble; one typeCharacter for an unflagged one.
C14_EmissionProtocol == SinkCalls = ProtocolOf(obs.log)

\* C14 witness: a character flagged only shouldCorrect was followed by an
\* unflagged one and the text was typed to its end.
C14_Witness ==
    /\ chunker.ptr = "obj" /\ ~HasMoreToType
    /\ \E i \in DOMAIN obs.log :
          /\ obs.log[i].result.shouldCorrect /\ ~obs.log[i].result.shouldDouble
          /\ obs.log[i].result.character # obs.log[i].original
          /\ i < Len(obs.log)
          /\ ~obs.log[i + 1].result.shouldCorrect /\ ~obs.log[i + 1].result.shouldDouble
    /\ Len(sink) > Len(obs.log)

\* Whether x is a value RandomGenerator::range(a, b) can return.
InRange(x, a, b) == (a <= x /\ x <= b) \/ (b <= x /\ x <= a)

\* Whether the imperfection generator g is as reset() leaves it: counters 0,
\* thresholds drawn from the configured ranges (INT_MAX for a feature that
\* is switched off).
FreshImperfection(g) ==
    /\ g.charsTypedTotal = 0
    /\ g.charsSinceLastTypo = 0
    /\ g.charsSinceLastDouble = 0
    /\ IF g.settings.enableTypos
       THEN InRange(g.nextTypoAt, g.settings.typoMin, g.settings.typoMax)
       ELSE g.nextTypoAt = IntMax
    /\ IF g.settings.enableDoubleKeys
       THEN InRange(g.nextDoubleAt, g.settings.doubleMin, g.settings.doubleMax)
       ELSE g.nextDoubleAt = IntMax

\* Whether the dynamics d is as reset() leaves it.
FreshDynamics(d) ==
    /\ d.fatigueFactor = 10000
    /\ d.burstRemaining = 0
    /\ d.totalCharsTyped = 0
    /\ d.previousChar = NullChar
    /\ 0 <= d.rhythmPhase /\ d.rhythmPhase <= TWO_PI

\* C16: right after reset() on an engine with a text set, fatigueFactor is
\* 1.0, burstRemaining 0, the processed-character total 0, previousChar the
\* null character, the typo and double-key counters 0 with thresholds drawn
\* anew, and wordsSinceBreak 0, however many characters were typed before.
C16_ResetState ==
    (ret.op = "reset" /\ chunker.ptr = "obj") =>
        /\ FreshDynamics(dynamics)
        /\ FreshImperfection(imperfectionGen)
        /\ wordsSinceBreak = 0

\* C16 witness: reset() was called after all INT_MAX characters of a text
\* had been typed.
C16_Witness ==
    /\ ret.op = "reset"
    /\ chunker.ptr = "obj"
    /\ chunker.currentIndex = IntMax
    /\ dynamics.totalCharsTyped = 0
    /\ dynamics.fatigueFactor = 10000

\* C17: right after setText(t), from whatever state, the chunker is at index
\* 0 of t, dynamics and imperfection generator are as freshly constructed,
\* wordsSinceBreak, the skipped-character count and preview are cleared; and
\* once an ASCII text has been typed to its end with typos and double keys
\* disabled the simulator has received exactly its characters, one
\* typeCharacter call each.
C17_SetTextFresh ==
    /\ ret.op = "setText" =>
          /\ chunker = NewTextChunker(ret.text)
          /\ chunker.currentIndex = 0
          /\ FreshDynamics(dynamics)
          /\ FreshImperfection(imperfectionGen)
          /\ imperfectionGen.settings = cfg.imperfections
          /\ wordsSinceBreak = 0
          /\ skippedCharCount = 0
          /\ skippedCharsPreview = <<>>
    /\ (/\ chunker.ptr = "obj" /\ ~HasMoreToType
        /\ ImperfectionsDisabled /\ IsAsciiText(chunker.text)) =>
          SinkCalls = [i \in 1..(TextLength(chunker.text) - obs.start) |->
                          <<"typeCharacter", TextAt(chunker.text, obs.start + i - 1)>>]

\* C18: a call of typeNextChunk made while hasMoreToType() is false - before
\* any setText, after setText(""), after the text is exhausted - returns 0,
\* calls neither simulator and leaves every member of the engine as it
\* was.  (hasMoreToType and progressPercent are const members, state
\* functions of the model.)
C18_ExhaustedNoOp ==
    [][(~HasMoreToType /\ ret'.op = "typeNextChunk") =>
          /\ ret'.values = {0}
          /\ sink' = sink /\ mouse' = mouse
          /\ UNCHANGED <<cfg, chunker, dynamics, imperfectionGen, wordsSinceBreak,
                         mouseMovementEnabled, charsSinceMouseMove, nextMouseMoveAt,
                         skippedCharCount, skippedCharsPreview>>]_vars

\* C18 witness: typeNextChunk was called after a text with a thinking-pause
\* count pending had been typed to its end.
C18_Witness ==
    /\ ret.op = "typeNextChunk" /\ ~ret.hadMore
    /\ chunker.ptr = "obj" /\ TextLength(chunker.text) > 0
    /\ wordsSinceBreak > 0
    /\ Len(sink) > 0

\* The characters of the text the chunker has handed out since observation
\* started, and those of them isTypeable accepts.
ConsumedText == TextSlice(chunker.text, obs.start, chunker.currentIndex)
TypeableText == SelectSeq(ConsumedText, IsTypeable)

\* C21: no character with a code point of 128 or more reaches the simulator;
\* with typos and double keys disabled the characters received are the
\* consumed text without exactly those characters, each ASCII character
\* once and unchanged, and skippedCharCount is the number of characters
\* left out.
C21_NonAsciiSkipped ==
    chunker.ptr = "obj" =>
        /\ \A p \in DOMAIN sink :
              sink[p].call = "typeCharacter" => Unicode(sink[p].c) < 128
        /\ ImperfectionsDisabled =>
              /\ SinkCalls = [i \in DOMAIN TypeableText |->
                                  <<"typeCharacter", TypeableText[i]>>]
              /\ skippedCharCount = Len(ConsumedText) - Len(TypeableText)

\* A call of typeNextChunk has just typed a chunk and returned its delay.
ChunkTyped == ret.op = "typeNextChunk" /\ ret.hadMore /\ ret.path = "typed"

\* The arguments typeNextChunk's calculateDelay has just given to
\* digraphFactor: previousChar_, which calculateDelay leaves as it is, and
\* the last character of the chunk.
DigraphPair == <<dynamics.previousChar, ret.chunk[Len(ret.chunk)]>>

\* C24: when typeNextChunk has computed the delay after a chunk and a
\* previous character existed, the pair given to digraphFactor is the
\* character of the text before the chunk's last character and that last
\* character: two consecutive characters of the text.
C24_DigraphConsecutive ==
    (chunker.ptr = "obj" /\ ChunkTyped /\ dynamics.previousChar # NullChar) =>
        /\ chunker.currentIndex >= 2
        /\ DigraphPair = <<TextAt(chunker.text, chunker.currentIndex - 2),
                           TextAt(chunker.text, chunker.currentIndex - 1)>>

\* The values calculateDelay can have returned to the typeNextChunk just
\* made had it not applied the digraph factor: its values on the object
\* it was called on (the rhythm phase one step back) without a previous
\* character.
DelayWithoutDigraph ==
    CalculateDelay([dynamics EXCEPT !.rhythmPhase = @ - 3,
                                    !.previousChar = NullChar],
                   ret.chunk[Len(ret.chunk)], ret.isSentenceEnd, ret.isBurst,
                   ret.isThinkingPause).values

\* C25: the delay typeNextChunk returns after a chunk of more than one
\* character contains no digraph factor.
C25_DigraphSingleOnly ==
    (chunker.ptr = "obj" /\ ChunkTyped /\ Len(ret.chunk) > 1) =>
        ret.values = DelayWithoutDigraph

RECURSIVE NetText(_)
\* The text the calls leave in the target: typeCharacter appends its
\* character, pressBackspace deletes the character emitted last.
NetText(calls) ==
    IF calls = <<>> THEN <<>>
    ELSE LET before == NetText(SubSeq(calls, 1, Len(calls) - 1))
             last == calls[Len(calls)]
         IN  IF last.call = "typeCharacter" THEN Append(before, last.c)
             ELSE IF last.call = "pressBackspace" /\ before # <<>>
                  THEN SubSeq(before, 1, Len(before) - 1)
             ELSE before

\* What the character of a log entry leaves of itself in the target when
\* a correction removes the substituted character: the original when it
\* was flagged shouldCorrect, and else its effective character, twice
\* when flagged shouldDouble.
CorrectedText(entry) ==
    IF entry.result.shouldCorrect THEN <<entry.original>>
    ELSE IF entry.result.shouldDouble
         THEN <<entry.result.character, entry.result.character>>
    ELSE <<entry.result.character>>

\* C26: whenever the emissions of a character are complete, every
\* character flagged for self-correction has left its original character
\* in the net typed text and nothing of its substituted character, also
\* when it was flagged for double-key as well.
C26_CorrectionRestores ==
    chunker.ptr = "obj" =>
        NetText(sink) = Concat([i \in DOMAIN obs.log |-> CorrectedText(obs.log[i])])

\* C28 as stated: a typeNextChunk that types a chunk advances rhythmPhase
\* by 0.03 rad for every character it processed.
C28_RhythmPerCharacter ==
    [][(ret'.op = "typeNextChunk" /\ ret'.hadMore /\ ret'.path = "typed") =>
          dynamics'.rhythmPhase =
              dynamics.rhythmPhase + 3 * (Len(obs'.log) - Len(obs.log))]_vars

\* C28, amended: between resets (reset, setText) rhythmPhase never
\* decreases; it advances by exactly 0.03 rad in every typeNextChunk that
\* types a chunk, whatever the number of characters of the chunk, and is
\* left alone by every other call.
C28_RhythmPerChunk ==
    [][(dynamics.ptr = "obj" /\ ret'.op \notin {"reset", "setText"}) =>
          /\ dynamics'.rhythmPhase >= dynamics.rhythmPhase
          /\ dynamics'.rhythmPhase =
                 IF ret'.op = "typeNextChunk" /\ ret'.hadMore /\ ret'.path = "typed"
                 THEN dynamics.rhythmPhase + 3
                 ELSE dynamics.rhythmPhase]_vars

\* C28 witness: a chunk of several characters was typed and more than one
\* of them was processed.
C28_Witness ==
    /\ ChunkTyped /\ Len(ret.chunk) > 1
    /\ Len(obs.log) > 1
    /\ dynamics.ptr = "obj" /\ dynamics.rhythmPhase > TWO_PI

\* C36: reset() leaves the profile, the delay range, the imperfection
\* settings, the layout, the text and the chunker's position as they are:
\* hasMoreToType() and progressPercent() return what they returned before,
\* and the typeNextChunk after it takes its chunk from the same index.
C36_ResetFrame ==
    /\ [][ret'.op = "reset" =>
             /\ cfg' = cfg
             /\ chunker' = chunker
             /\ HasMoreToType' = HasMoreToType
             /\ EngineProgressPercent' = EngineProgressPercent]_vars
    /\ [][(ret.op = "reset" /\ ret'.op = "typeNextChunk" /\ ret'.path = "typed") =>
             /\ chunker'.text = chunker.text
             /\ chunker'.currentIndex > chunker.currentIndex
             /\ ret'.chunk = TextSlice(chunker.text, chunker.currentIndex,
                                       chunker'.currentIndex)]_vars

\* C36 witness: reset was called in the middle of a text and a chunk was
\* typed after it.
C36_Witness ==
    /\ ChunkTyped
    /\ obs.start = 0
    /\ chunker.currentIndex > Len(ret.chunk)
    /\ dynamics.totalCharsTyped < chunker.currentIndex - skippedCharCount

\* The white-space characters among the characters the step has handed to
\* processCharacter.
SpacesProcessed ==
    Cardinality({i \in (Len(obs.log) + 1)..Len(obs'.log) :
                    IsSpace(obs'.log[i].original)})

\* C35: a typeNextChunk applies a thinking pause only when wordsSinceBreak,
\* with the white space of the chunk counted, is above 8, and then leaves
\* it 0; every other typeNextChunk leaves it grown by exactly one per
\* white-space character processed.
C35_ThinkingPause ==
    [][ret'.op = "typeNextChunk" =>
          IF ret'.path = "typed" /\ ret'.isThinkingPause
          THEN /\ wordsSinceBreak + SpacesProcessed > MIN_WORDS_BEFORE_PAUSE
               /\ wordsSinceBreak' = 0
          ELSE wordsSinceBreak' = wordsSinceBreak + SpacesProcessed]_vars

\* C35 witness: a typeNextChunk has applied a thinking pause after more
\* than 8 white-space characters.
C35_Witness ==
    /\ ChunkTyped /\ ret.isThinkingPause
    /\ wordsSinceBreak = 0
    /\ Len(SelectSeq(obs.log, LAMBDA entry : IsSpace(entry.original)))
          > MIN_WORDS_BEFORE_PAUSE

---------------------------------------------------------------------------
(* Claims about the KeyboardLayout, checked under SpecLayout.              *)

\* The row (1..3) and the 0-based column of the lower-cased c in the table.
RowOf(layout, c) == CHOOSE r \in 1..3 : IndexOf(layout.rows[r], ToLower(c)) # -1
ColOf(layout, c) == IndexOf(layout.rows[RowOf(layout, c)], ToLower(c))

\* |a - b| <= 1.
Adjacent(a, b) == a - b \in {-1, 0, 1}

\* C15: in each of the four layouts getNeighborKey returns, for a letter of
\* the 3-row table, a different letter of the table whose row and column
\* each differ by at most 1 from the input's, in the input's case; any
\* other character (digit, space, punctuation, unmapped letter) comes back
\* unchanged.
C15_NeighborKey ==
    ret.op = "getNeighborKey" =>
        LET layout == NewKeyboardLayout(cfg.layout)
        IN  IF InTable(layout, ret.c)
            THEN /\ ret.out # ret.c
                 /\ IsLetter(ret.out)
                 /\ InTable(layout, ret.out)
                 /\ Adjacent(RowOf(layout, ret.out), RowOf(layout, ret.c))
                 /\ Adjacent(ColOf(layout, ret.out), ColOf(layout, ret.c))
                 /\ IsUpper(ret.out) <=> IsUpper(ret.c)
            ELSE ret.out = ret.c

\* C15 witness: on the French layout the upper-case letter at the end of the
\* middle row came back as its upper-case left neighbour.
C15_Witness ==
    /\ ret.op = "getNeighborKey"
    /\ cfg.layout = "FRENCH_AZERTY"
    /\ ret.c = "M"
    /\ ret.out = "L"

---------------------------------------------------------------------------
(* Claims about the TypingDynamics, checked under SpecDynamics.            *)

\* 1 + 0.25 * min(1, total / 1000) in ten-thousandths, total >= 0.
ClaimedFatigue(total) ==
    10000 + (2500 * (IF total > 1000 THEN 1000 ELSE total)) \div 1000

\* C19: fatigueFactor lies in [1.0, 1.25] and is 1.0 while fewer than 50
\* characters have been processed; updateState never lowers it and changes
\* it only when the new total is a multiple of 50, to
\* 1 + 0.25 * min(1, total / 1000).
C19_Fatigue ==
    /\ [](/\ 10000 <= dynamics.fatigueFactor /\ dynamics.fatigueFactor <= 12500
          /\ (0 <= dynamics.totalCharsTyped /\ dynamics.totalCharsTyped < 50) =>
                dynamics.fatigueFactor = 10000)
    /\ [][ret'.op = "updateState" =>
            /\ dynamics'.fatigueFactor >= dynamics.fatigueFactor
            /\ dynamics'.fatigueFactor # dynamics.fatigueFactor =>
                  dynamics'.totalCharsTyped % 50 = 0
            /\ (dynamics'.totalCharsTyped >= 0 /\ dynamics'.totalCharsTyped % 50 = 0) =>
                  dynamics'.fatigueFactor = ClaimedFatigue(dynamics'.totalCharsTyped)]_vars

\* Whether the key of c is one of the keys of hand (a set of lower-case
\* letters).
OnHand(c, hand) == ToLower(c) \in hand

\* C20: digraphFactor(prev, curr) is 0.75 when the lower-cased pair is one
\* of the ten fast bigrams; if not, 1.4 for the pairs (q,z), (z,q), (p,q);
\* if neither, 1.08 when both characters are keys of the same hand; and 1.0
\* in every other case.  So ('t','h') is below 1.0 and ('q','z') above.
C20_DigraphFactor ==
    /\ Cardinality(fast) = 10
    /\ ret.op = "digraphFactor" =>
          LET isFast == <<ToLower(ret.prev), ToLower(ret.curr)>> \in fast
              isAwkward == <<ret.prev, ret.curr>> \in
                              {<<"q", "z">>, <<"z", "q">>, <<"p", "q">>}
              sameHand == \/ OnHand(ret.prev, leftHand) /\ OnHand(ret.curr, leftHand)
                          \/ OnHand(ret.prev, rightHand) /\ OnHand(ret.curr, rightHand)
          IN  /\ isFast => ret.value = 75
              /\ (~isFast /\ isAwkward) => ret.value = 140
              /\ (~isFast /\ ~isAwkward /\ sameHand) => ret.value = 108
              /\ (~isFast /\ ~isAwkward /\ ~sameHand) => ret.value = 100
              /\ (ret.prev = "t" /\ ret.curr = "h") => ret.value < 100
              /\ (ret.prev = "q" /\ ret.curr = "z") => ret.value > 100

\* C20 witness: the pair (q,z), two keys of the left hand, got 1.4.
C20_Witness ==
    /\ ret.op = "digraphFactor"
    /\ ret.prev = "q" /\ ret.curr = "z"
    /\ OnHand(ret.prev, leftHand) /\ OnHand(ret.curr, leftHand)
    /\ ret.value = 140

---------------------------------------------------------------------------
(* Claims about the AutoTyperWindow, checked under SpecDriver.             *)

\* C22: a startTyping that finds the text empty only sets the error
\* status: isTyping stays false, the engine and everything in it is the
\* one there was (none, or the one of the session before), the simulator
\* gets no call, none of the three timers is active afterwards and the
\* window is not inside the typing slot, so that no keystroke can follow.
C22_EmptyTextRejected ==
    [][(ret'.op = "startTyping" /\ TextLength(ret'.text) = 0) =>
          /\ window' = [window EXCEPT !.status = "Error: No text to process!"]
          /\ ~window'.isTyping
          /\ TimersOff(window')
          /\ window'.pc = "idle"
          /\ UNCHANGED <<engineObject, sink>>]_vars

C22_Witness ==
    /\ ret.op = "startTyping" /\ TextLength(ret.text) = 0
    /\ window.status = "Error: No text to process!"
    /\ window.engine = "obj" /\ ~HasMoreToType
    /\ Len(sink) > 1

\* C23: a session is never active with the last progress event (the start
\* of a typeNextChunk step) more than the watchdog limit plus one watchdog
\* period ago, also while a call of the simulator does not return; and
\* the watchdog's stop of a stalled session leaves isTyping false and the
\* timers stopped, and calls releaseAllKeys.
C23_WatchdogStops ==
    /\ [](window.ptr = "obj" /\ window.isTyping =>
             window.sinceAction <= WATCHDOG_LIMIT_MS + WATCHDOG_INTERVAL_MS)
    /\ [][(ret'.op = "watchdogCheck" /\ window.ptr = "obj" /\ window.isTyping
              /\ window.sinceAction > WATCHDOG_LIMIT_MS) =>
             /\ ~window'.isTyping
             /\ TimersOff(window')
             /\ Len(sink') > Len(sink)
             /\ sink'[Len(sink')].call = "releaseAllKeys"]_vars

\* C29: when watchdogCheck has stopped a stalled session, the status shown
\* is the watchdog notice, not "Stopped" or "Completed!".
C29_WatchdogNotice ==
    [][(ret'.op = "watchdogCheck" /\ window.ptr = "obj" /\ window.isTyping
          /\ ~window'.isTyping) =>
         window'.status = "Watchdog triggered - Reset"]_vars

\* C31: in a healthy session (every timeout is served when it is due, every
\* delay of the engine is at most 8000 ms and no call of the engine has
\* taken longer than the key emissions of its chunk) the watchdog never
\* force-stops the session while text is left.
C31_HealthyNotStopped ==
    [][(ret'.op = "watchdogCheck" /\ window.isTyping /\ ~window'.isTyping)
          => (~obs.healthy \/ ~HasMoreToType)]_vars

\* The calls the simulator receives in the step.
NewCalls == {sink'[i] : i \in (Len(sink) + 1)..Len(sink')}

\* C32: every step that ends a session (Stop or Escape, the watchdog, the
\* end of the text) is a stopTyping(): its last call of the simulator is
\* releaseAllKeys, the three timers are inactive and the buttons are back;
\* and while no session runs the simulator receives no keystroke until a
\* startTyping() that finds text.
C32_EndsThroughStop ==
    /\ [][(window.isTyping /\ ~window'.isTyping) =>
             /\ ret'.op \in {"stopTyping", "watchdogCheck", "updateCountdown",
                             "typingTimeout", "typeNextChunkSlot"}
             /\ Len(sink') > Len(sink)
             /\ sink'[Len(sink')].call = "releaseAllKeys"
             /\ TimersOff(window')
             /\ window'.startEnabled /\ ~window'.stopEnabled
             /\ window'.status \in {"Completed!", "Stopped"}]_vars
    /\ [][(~window.isTyping /\ ~window'.isTyping) =>
             /\ Len(sink') >= Len(sink)
             /\ \A call \in NewCalls : call.call = "releaseAllKeys"]_vars
    /\ [](~window.isTyping => (TimersOff(window) /\ window.pc = "idle"))

\* C32 witness: a session has typed its text to the end and was stopped.
C32_Witness ==
    /\ ~window.isTyping
    /\ window.status = "Completed!"
    /\ TimersOff(window)
    /\ Len(sink) > 1
    /\ sink[Len(sink)].call = "releaseAllKeys"
    /\ sink[1].call = "typeCharacter"

---------------------------------------------------------------------------
(* Claims about the sessions of the AutoTyperWindow under fair timers,     *)
(* checked under SpecSession.                                              *)

\* A step ends the session without a request to stop.
EndsUnasked == window.isTyping /\ ~window'.isTyping /\ ret'.op # "stopTyping"

\* The countdown of a session and the stop during it: the countdown takes
\* five timeouts of the one-second timer, the simulator receives nothing
\* while it runs, and a stop during it leaves the simulator with the
\* release of the keys alone.
CountdownFirst ==
    /\ [][ret'.op = "updateCountdown" =>
             /\ window.countdownTimer = 0
             /\ window'.countdownValue = window.countdownValue - 1
             /\ (window'.pc = "calling" => window'.countdownValue = 0)]_vars
    /\ []((window.isTyping /\ window.countdownTimer >= 0) =>
             /\ sink = <<>>
             /\ window.countdownValue \in 1..COUNTDOWN_START
             /\ window.sinceAction =
                   (COUNTDOWN_START - window.countdownValue) * COUNTDOWN_INTERVAL_MS
                   + (COUNTDOWN_INTERVAL_MS - window.countdownTimer))
    /\ [][(ret'.op = "stopTyping" /\ window.countdownTimer >= 0) =>
             /\ ~window'.isTyping
             /\ sink' = <<[call |-> "releaseAllKeys"]>>]_vars

---------------------------------------------------------------------------
(* Claims about the WebSocket client, checked under SpecClient.            *)

\* C37: at most one thread is inside typeText at any time, and the command
\* loop touches the engine only while none is; a start_typing received
\* while isBusy is ignored and changes neither the text, the settings of
\* the engine, the stop flag nor anything else of the client.
C37_OneTypingThread ==
    /\ [](Cardinality(InTypeText) <= 1)
    /\ [](client.pc = "configure" => InTypeText = {})
    /\ [][client'.engine # client.engine => InTypeText = {}]_vars
    /\ [][(ret'.op = "start_typing" /\ client.isBusy) =>
             (ret'.outcome = "ignored" /\ client' = client)]_vars
    /\ [](InTypeText # {} => client.isBusy)

\* C37 witness: a second session is typing and a start_typing was ignored.
C37_Witness ==
    /\ ret.op = "start_typing" /\ ret.outcome = "ignored"
    /\ Len(client.threads) = 2
    /\ client.threads[2].pc = "typing"

\* C38: after "ready" the status messages are "busy" and "free" in turn,
\* "busy" first, and no "free" of a session comes after the "busy" of a
\* later session.
C38_StatusOrder ==
    /\ \A k \in 2..Len(client.sent) :
          client.sent[k].status = IF k % 2 = 0 THEN "busy" ELSE "free"
    /\ \A i, j \in 2..Len(client.sent) :
          (i < j /\ client.sent[i].status = "busy" /\ client.sent[j].status = "free")
             => client.sent[j].session >= client.sent[i].session

\* C39: after a stop_typing has set shouldStop during a session the thread
\* types at most one more key, then isBusy becomes false; a stop_typing
\* that came during the countdown leaves the session without a key typed;
\* an accepted start_typing clears the stop flag, and a session ends with
\* text left only when a stop_typing came during it.
C39_StopHonoured ==
    /\ [](obs.afterStop <= 1)
    /\ [](obs.stopped = "countdown" => sink = <<>>)
    /\ []((client.shouldStop /\ client.isBusy) => <>(~client.isBusy))
    /\ [](ret.op = "startThread" => ~client.shouldStop)
    /\ [][\A t \in InTypeText :
             (client'.threads[t].pc = "returned"
                /\ client.threads[t].index <= Len(client.threads[t].text))
             => obs.stopped # "none"]_vars

\* C39 witness: the first session was stopped, and the second one, stopped
\* while it typed, has typed one key after the stop and is over.
C39_Witness ==
    /\ Len(client.threads) = 2
    /\ client.sent[3].status = "free"
    /\ obs.stopped = "typing" /\ obs.afterStop = 1
    /\ ~client.isBusy

---------------------------------------------------------------------------
(* Claims about the bursts of a TypingDynamics, checked under SpecBurst.   *)

\* C27: burstRemaining is never negative, and when a burst that began with
\* a successful burstProb draw has run out, so that the next call draws
\* again, shouldBurst has reported active on a number of consecutive calls
\* that lies in [burstMin, burstMax].
C27_BurstLength ==
    /\ dynamics.burstRemaining >= 0
    /\ (ret.op = "shouldBurst" /\ ret.value /\ dynamics.burstRemaining = 0) =>
          /\ dynamics.profile.burstMin <= obs.run
          /\ obs.run <= dynamics.profile.burstMax

---------------------------------------------------------------------------
(* Claims about one text typed to its end, checked under SpecRun.          *)

\* C30: once a text is set, the calls of typeNextChunk lead to
\* hasMoreToType() being false; every call made while text remains either
\* advances the chunker by at least one character and moves no mouse, or
\* moves the mouse once and leaves the chunker; and a call that moved the
\* mouse leaves no mouse movement due for the next call.
C30_Terminates ==
    /\ [][(ret'.op = "typeNextChunk" /\ ret'.hadMore) =>
             \/ /\ chunker'.currentIndex > chunker.currentIndex
                /\ mouse' = mouse
             \/ /\ chunker' = chunker
                /\ mouse' = mouse + 1]_vars
    /\ []((ret.op = "typeNextChunk" /\ ret.path = "mouse") => ~ShouldMoveMouse)
    /\ [](chunker.ptr = "obj" => <>(~HasMoreToType))

\* C30 witness: a text was typed to its end with the mouse moved on the
\* way.
C30_Witness ==
    /\ chunker.ptr = "obj" /\ chunker.currentIndex > 0 /\ ~HasMoreToType
    /\ mouse > 0
    /\ ret.op = "typeNextChunk" /\ ret.path = "typed"

====
